---- MODULE Spec2Model ----
(***************************************************************************)
(* Strategy construction and feedback optimisation of the ETF agent        *)
(* backend (app/strategy/engine.py, app/tools/strategy_optimization.py).   *)
(*                                                                         *)
(* Text is modelled as a sequence of characters (a Chinese character is    *)
(* written as its pinyin syllable), so that Python's `term in text` is a   *)
(* real substring test.  Python floats are modelled                        *)
(* as exact rationals [n, d] in lowest terms; round(x, 2) is round-half-   *)
(* even on the exact value and yields an integer number of hundredths.     *)
(***************************************************************************)
EXTENDS Integers, Sequences, FiniteSets, TLC

VARIABLES
    pc,            \* which entry point has run in this behaviour
    catalog,       \* rows of the instrument catalog, in fund_scale order
    elements,      \* investment_elements of the generate_strategy call
    constraints,   \* constraints of the generate_strategy call
    genResult,     \* what generate_strategy returned
    etf_pool,      \* argument of _optimize_portfolio
    optElements,   \* elements argument of _optimize_portfolio
    weights,       \* what _optimize_portfolio returned
    strategy,      \* the caller's current_strategy["etf_allocations"]
    origStrategy,  \* the same list as it was when the last call started
    estimates,     \* the caller's current_strategy["performance_estimates"]
    feedback,      \* content of the last user_feedback
    optResult,     \* what optimize_strategy / the tool's _run returned
    rebalanced,    \* the allocations after each successive rebalance call
    portfolio_returns,  \* argument of _calculate_performance_metrics
    benchmark_returns,  \* its benchmark argument
    metrics,            \* what _calculate_performance_metrics returned
    wind_service,       \* the catalog source the backtest reads prices from
    strategy_config,    \* etf_allocations of the run_backtest calls
    backtests,          \* one record per run_backtest call made so far
    etf_universe,       \* what _build_etf_universe / _build_etf_pool returned
    calls,              \* the entry-point calls made so far and how each ended
    session_context,    \* the cache entry conversation:context:{session_id}
    turns,              \* one record per process_message call made so far
    flow,               \* a determine_stage call: its arguments and result
    active_connections, \* WebSocketManager.active_connections[session_id]
    user_sessions,      \* the users whose set of sessions holds session_id, in dict order
    ws_tasks,           \* the connect / disconnect coroutines and where each is
    registration,       \* the connection registered last under session_id
    db_strategy,        \* the row of the Strategy table with id strategy_id
    strategy_cache,     \* the cache entry strategy:data:{strategy_id}
    requests            \* the StrategyService calls and where each is

vars == <<pc, catalog, elements, constraints, genResult, etf_pool,
          optElements, weights, strategy, origStrategy, estimates, feedback,
          optResult, rebalanced, portfolio_returns, benchmark_returns, metrics,
          wind_service, strategy_config, backtests, etf_universe, calls,
          session_context, turns, flow, active_connections, user_sessions,
          ws_tasks, registration, db_strategy, strategy_cache, requests>>

genVars == <<catalog, elements, constraints, genResult>>
allocVars == <<etf_pool, optElements, weights>>
optVars == <<strategy, origStrategy, estimates, feedback, optResult, rebalanced>>
metricVars == <<portfolio_returns, benchmark_returns, metrics>>
backtestVars == <<wind_service, strategy_config, backtests>>
convVars == <<session_context, turns>>
socketVars == <<active_connections, user_sessions, ws_tasks, registration>>
storeVars == <<db_strategy, strategy_cache, requests>>
sessionVars == <<convVars, flow, socketVars, storeVars>>
serviceVars == <<etf_universe, calls, sessionVars>>

----------------------------------------------------------------------------
(* Bounds of the model *)

MaxCatalog == 6
MaxPool == 5
MaxAllocs == 3

----------------------------------------------------------------------------
(* Text *)

Lower(ch) ==
    CASE ch = "B" -> "b"
      [] ch = "E" -> "e"
      [] OTHER -> ch

LowerText(t) == [i \in DOMAIN t |-> Lower(t[i])]

\* Python `term in text`
Contains(term, text) ==
    \E i \in 0..(Len(text) - Len(term)) :
        \A j \in 1..Len(term) : text[i + j] = term[j]

Stock == <<"gu", "piao">>
Bond == <<"zhai", "quan">>
Other == <<"qi", "ta">>
Commodity == <<"shang", "pin">>
Reits == <<"R", "E", "I", "T", "S">>
BondEn == <<"b", "o", "n", "d">>
EquityEn == <<"e", "q", "u", "i", "t", "y">>
MixedLabel == <<"gu", "piao", "zhai", "quan", "hun", "he">>
BondEnLabel == <<"B", "o", "n", "d">>
NoText == <<>>

----------------------------------------------------------------------------
(* Exact rational arithmetic; denominators are positive *)

RECURSIVE GCD(_, _)
GCD(a, b) == IF b = 0 THEN a ELSE GCD(b, a % b)

Rat(n, d) == LET g == GCD(n, d) IN [n |-> n \div g, d |-> d \div g]

RZero == [n |-> 0, d |-> 1]

RMul(a, b) ==
    LET g1 == GCD(a.n, b.d)
        g2 == GCD(b.n, a.d)
    IN  IF a.n = 0 \/ b.n = 0 THEN RZero
        ELSE [n |-> (a.n \div g1) * (b.n \div g2),
              d |-> (a.d \div g2) * (b.d \div g1)]

RDiv(a, b) == RMul(a, [n |-> b.d, d |-> b.n])

RAdd(a, b) ==
    LET g == GCD(a.d, b.d)
        l == (a.d \div g) * b.d
    IN  Rat(a.n * (l \div a.d) + b.n * (l \div b.d), l)

RLess(a, b) ==
    LET g == GCD(a.d, b.d)
    IN  a.n * (b.d \div g) < b.n * (a.d \div g)

RMax(a, b) == IF RLess(a, b) THEN b ELSE a

RMin(a, b) == IF RLess(b, a) THEN b ELSE a

RECURSIVE RSum(_)
RSum(s) == IF s = <<>> THEN RZero ELSE RAdd(Head(s), RSum(Tail(s)))

\* round-half-even of a rational to an integer
RoundHalfEven(r) ==
    LET q == r.n \div r.d
        m == r.n % r.d
    IN  IF 2 * m < r.d THEN q
        ELSE IF 2 * m > r.d THEN q + 1
        ELSE IF q % 2 = 0 THEN q ELSE q + 1

\* round(x, 2), as a number of hundredths
Round2(x) == RoundHalfEven(RMul(x, Rat(100, 1)))

RECURSIVE SumInts(_)
SumInts(s) == IF s = <<>> THEN 0 ELSE Head(s) + SumInts(Tail(s))

\* Python s[:k], negative k included
Slice(s, k) ==
    IF k >= 0 THEN SubSeq(s, 1, IF k < Len(s) THEN k ELSE Len(s))
    ELSE SubSeq(s, 1, Len(s) + k)

----------------------------------------------------------------------------
(* Instrument catalog.  market_cap is in units of 10^8 yuan, expense_ratio *)
(* and sharpe_ratio in hundredths.  An optional value (a dict key that may *)
(* be absent, or None) is a sequence of length 0 or 1.                     *)

Gold == <<"huang", "jin">>

\* the kinds of instrument the catalog lists, largest fund_scale first
Kinds == <<
    [asset_class |-> Stock, sector |-> NoText, market_cap |-> 200,
     expense_ratio |-> 30, sharpe_ratio |-> 120],
    [asset_class |-> Bond, sector |-> NoText, market_cap |-> 60,
     expense_ratio |-> 40, sharpe_ratio |-> 60],
    [asset_class |-> Commodity, sector |-> Gold, market_cap |-> 5,
     expense_ratio |-> 80, sharpe_ratio |-> 0],
    [asset_class |-> MixedLabel, sector |-> NoText, market_cap |-> 20,
     expense_ratio |-> 120, sharpe_ratio |-> 0] >>

Row(code, kind) ==
    [code |-> code, asset_class |-> kind.asset_class, sector |-> kind.sector,
     market_cap |-> kind.market_cap, expense_ratio |-> kind.expense_ratio,
     sharpe_ratio |-> kind.sharpe_ratio]

\* how many rows of each kind the catalog holds
CatalogCounts ==
    {c \in [DOMAIN Kinds -> 0..MaxCatalog] :
        c[1] + c[2] + c[3] + c[4] <= MaxCatalog}

KindOfRow(c, i) ==
    IF i <= c[1] THEN 1
    ELSE IF i <= c[1] + c[2] THEN 2
    ELSE IF i <= c[1] + c[2] + c[3] THEN 3
    ELSE 4

\* ETFBasicInfo rows ordered by fund_scale desc, etf_code unique
CatalogOf(c) ==
    [i \in 1..(c[1] + c[2] + c[3] + c[4]) |-> Row(i, Kinds[KindOfRow(c, i)])]

Catalogs == {CatalogOf(c) : c \in CatalogCounts}

\* ETFService.get_etf_list(asset_class=..., limit=...)
get_etf_list(cat, asset_class, limit) ==
    LET Match(r) == asset_class = NoText \/ Contains(asset_class, r.asset_class)
    IN  Slice(SelectSeq(cat, Match), limit)

----------------------------------------------------------------------------
(* Universe Builder: StrategyEngine._build_etf_universe *)

PreferredLimit == 15
DefaultLimit == 8
DefaultMaxEtfCount == 12

default_assets == <<Stock, Bond, Commodity, Reits>>

RECURSIVE FetchAll(_, _, _)
\* for asset_class in classes: etf_pool.extend(get_etf_list(asset_class, limit))
FetchAll(cat, classes, limit) ==
    IF classes = <<>> THEN <<>>
    ELSE get_etf_list(cat, Head(classes), limit)
         \o FetchAll(cat, Tail(classes), limit)

\* Python etf.get(key, default): a row is a record that may lack a key
Get(etf, key, default) == IF key \in DOMAIN etf THEN etf[key] ELSE default

\* etf.get("asset_class", "") + etf.get("sector", "")
CombinedText(etf) == Get(etf, "asset_class", NoText) \o Get(etf, "sector", NoText)

\* the forbidden_assets filter testing the asset_class alone
FilterForbiddenAssetClass(pool, forbidden_assets) ==
    LET Allowed(etf) ==
            ~ \E k \in DOMAIN forbidden_assets :
                Contains(forbidden_assets[k], Get(etf, "asset_class", NoText))
    IN  IF forbidden_assets # <<>> THEN SelectSeq(pool, Allowed) ELSE pool

\* the forbidden_assets filter of _build_etf_universe
FilterForbidden(pool, forbidden_assets) ==
    LET Allowed(etf) ==
            ~ \E k \in DOMAIN forbidden_assets :
                Contains(forbidden_assets[k], CombinedText(etf))
    IN  IF forbidden_assets # <<>> THEN SelectSeq(pool, Allowed) ELSE pool

Truthy(opt) == opt # <<>> /\ opt[1] # 0

apply_constraints(pool, cons) ==
    LET CapOk(etf) == Get(etf, "market_cap", 0) >= cons.min_market_cap[1]
        ExpOk(etf) == Get(etf, "expense_ratio", 0) <= cons.max_expense_ratio[1]
        p1 == IF Truthy(cons.min_market_cap) THEN SelectSeq(pool, CapOk) ELSE pool
    IN  IF Truthy(cons.max_expense_ratio) THEN SelectSeq(p1, ExpOk) ELSE p1

RECURSIVE Deduplicate(_, _)
Deduplicate(pool, seen_codes) ==
    IF pool = <<>> THEN <<>>
    ELSE IF Head(pool).code \in seen_codes
         THEN Deduplicate(Tail(pool), seen_codes)
         ELSE <<Head(pool)>>
              \o Deduplicate(Tail(pool), seen_codes \cup {Head(pool).code})

rank_score(etf) ==
    LET market_cap == Get(etf, "market_cap", 0)
        expense_ratio == Get(etf, "expense_ratio", 100)
        sharpe_ratio == Get(etf, "sharpe_ratio", 0)
    IN  (IF market_cap > 100 THEN 3
         ELSE IF market_cap > 50 THEN 2
         ELSE IF market_cap > 10 THEN 1 ELSE 0)
        + (IF expense_ratio < 50 THEN 2
           ELSE IF expense_ratio < 100 THEN 1 ELSE 0)
        + (IF sharpe_ratio > 100 THEN 2
           ELSE IF sharpe_ratio > 50 THEN 1 ELSE 0)

MaxScore == 7

RECURSIVE SortByScore(_, _)
\* list.sort(key=rank_score, reverse=True): stable, highest score first
SortByScore(pool, score) ==
    LET Has(etf) == rank_score(etf) = score
    IN  IF score < 0 THEN <<>>
        ELSE SelectSeq(pool, Has) \o SortByScore(pool, score - 1)

deduplicate_and_rank(pool) == SortByScore(Deduplicate(pool, {}), MaxScore)

build_etf_universe(cat, el, cons) ==
    LET fetched ==
            IF el.preferred_asset_classes # <<>>
            THEN FetchAll(cat, el.preferred_asset_classes, PreferredLimit)
            ELSE FetchAll(cat, default_assets, DefaultLimit)
        allowed == FilterForbidden(fetched, el.forbidden_assets)
        unique_etfs == deduplicate_and_rank(apply_constraints(allowed, cons))
        max_etfs == IF cons.max_etf_count = <<>> THEN DefaultMaxEtfCount
                    ELSE cons.max_etf_count[1]
    IN  Slice(unique_etfs, max_etfs)

----------------------------------------------------------------------------
(* Allocation Engine: StrategyEngine._optimize_portfolio and its helpers *)

Conservative == "baoshou"
Balanced == "wenjian"
Aggressive == "jiji"
Speculative == "jijin"
RiskLevels == {Conservative, Balanced, Aggressive, Speculative}

\* the bucket _conservative_weights puts an asset-class label in
ConservativeBucket(label) ==
    LET asset_class == LowerText(label)
    IN  IF Contains(Bond, asset_class) \/ Contains(BondEn, asset_class)
        THEN "bond"
        ELSE IF Contains(Stock, asset_class) \/ Contains(EquityEn, asset_class)
        THEN "stock"
        ELSE "other"

conservative_weights(pool) ==
    LET Share(b) == CASE b = "bond" -> Rat(70, 100)
                      [] b = "stock" -> Rat(25, 100)
                      [] OTHER -> Rat(5, 100)
        BucketOf(i) == ConservativeBucket(pool[i].asset_class)
        Members(b) == {j \in DOMAIN pool : BucketOf(j) = b}
    IN  [i \in DOMAIN pool |->
            RDiv(Share(BucketOf(i)), Rat(Cardinality(Members(BucketOf(i))), 1))]

\* the group _asset_class_weights puts a label in: the first key of
\* target_allocation that occurs in the label, else "other"
RECURSIVE GroupOf(_, _)
GroupOf(label, keys) ==
    IF keys = <<>> THEN Other
    ELSE IF Contains(Head(keys), label) THEN Head(keys)
    ELSE GroupOf(label, Tail(keys))

Keys(target_allocation) ==
    [j \in DOMAIN target_allocation |-> target_allocation[j].key]

asset_class_weights(pool, target_allocation) ==
    LET keys == Keys(target_allocation)
        Group(i) == GroupOf(pool[i].asset_class, keys)
        Members(g) == {j \in DOMAIN pool : Group(j) = g}
        Target(g) == {j \in DOMAIN keys : keys[j] = g}
    IN  [i \in DOMAIN pool |->
            IF Target(Group(i)) = {} THEN RZero
            ELSE RDiv(target_allocation[CHOOSE j \in Target(Group(i)) : TRUE].weight,
                      Rat(Cardinality(Members(Group(i))), 1))]

BalancedAllocation ==
    <<[key |-> Stock, weight |-> Rat(60, 100)],
      [key |-> Bond, weight |-> Rat(40, 100)]>>

AggressiveAllocation ==
    <<[key |-> Stock, weight |-> Rat(80, 100)],
      [key |-> Bond, weight |-> Rat(15, 100)],
      [key |-> Other, weight |-> Rat(5, 100)]>>

SpeculativeAllocation ==
    <<[key |-> Stock, weight |-> Rat(90, 100)],
      [key |-> Other, weight |-> Rat(10, 100)]>>

balanced_weights(pool) == asset_class_weights(pool, BalancedAllocation)

aggressive_weights(pool) == asset_class_weights(pool, AggressiveAllocation)

speculative_weights(pool) == asset_class_weights(pool, SpeculativeAllocation)

\* the class _adjust_weights_for_target_return scales a label as, given
\* which of its two branches runs
AdjustClass(label, high) ==
    LET asset_class == LowerText(label)
    IN  IF high
        THEN IF Contains(Stock, asset_class) THEN "stock"
             ELSE IF Contains(Bond, asset_class) THEN "bond" ELSE "other"
        ELSE IF Contains(Bond, asset_class) THEN "bond"
             ELSE IF Contains(Stock, asset_class) THEN "stock" ELSE "other"

adjust_weights_for_target_return(base_weights, pool, target_return) ==
    LET Factor(i) ==
            IF target_return > 10
            THEN CASE AdjustClass(pool[i].asset_class, TRUE) = "stock" -> Rat(12, 10)
                   [] AdjustClass(pool[i].asset_class, TRUE) = "bond" -> Rat(8, 10)
                   [] OTHER -> Rat(1, 1)
            ELSE IF target_return < 6
            THEN CASE AdjustClass(pool[i].asset_class, FALSE) = "bond" -> Rat(13, 10)
                   [] AdjustClass(pool[i].asset_class, FALSE) = "stock" -> Rat(7, 10)
                   [] OTHER -> Rat(1, 1)
            ELSE Rat(1, 1)
    IN  [i \in DOMAIN pool |-> RMul(base_weights[i], Factor(i))]

\* w / total for every weight, when total > 0
Normalize(ws) ==
    LET total_weight == RSum(ws)
    IN  IF total_weight.n > 0
        THEN [i \in DOMAIN ws |-> RDiv(ws[i], total_weight)]
        ELSE ws

BaseWeights(pool, risk_tolerance) ==
    CASE risk_tolerance = Conservative -> conservative_weights(pool)
      [] risk_tolerance = Balanced -> balanced_weights(pool)
      [] risk_tolerance = Aggressive -> aggressive_weights(pool)
      [] risk_tolerance = Speculative -> speculative_weights(pool)
      [] OTHER -> [i \in DOMAIN pool |-> Rat(1, Len(pool))]

\* `if target_return:` of _optimize_portfolio
TargetGiven(target_return) == Truthy(target_return)

optimize_portfolio(pool, el) ==
    LET base == BaseWeights(pool, el.risk_tolerance)
        adjusted ==
            IF TargetGiven(el.target_return)
            THEN adjust_weights_for_target_return(base, pool, el.target_return[1])
            ELSE base
    IN  IF Len(pool) = 0 THEN <<>> ELSE Normalize(adjusted)

\* the materiality test of _build_strategy_config
Material(weight) == RLess(Rat(1, 100), weight)

build_strategy_config(pool, ws) ==
    LET Keep(i) == Material(ws[i])
        RECURSIVE Allocs(_)
        Allocs(i) ==
            IF i > Len(pool) THEN <<>>
            ELSE (IF Keep(i)
                  THEN <<[etf_code |-> pool[i].code,
                          weight |-> Round2(RMul(ws[i], Rat(100, 1))),
                          asset_class |-> pool[i].asset_class,
                          sector |-> pool[i].sector]>>
                  ELSE <<>>) \o Allocs(i + 1)
    IN  Allocs(1)

----------------------------------------------------------------------------
(* StrategyEngine.generate_strategy *)

NoEligibleEtf == "no eligible ETF found"

generate_strategy(cat, el, cons) ==
    LET pool == build_etf_universe(cat, el, cons)
        optimal_weights == optimize_portfolio(pool, el)
    IN  IF pool = <<>>
        THEN [success |-> FALSE, error |-> NoEligibleEtf, etf_allocations |-> <<>>]
        ELSE [success |-> TRUE, error |-> "",
              etf_allocations |-> build_strategy_config(pool, optimal_weights)]

NoElements ==
    [risk_tolerance |-> Balanced, target_return |-> <<>>,
     preferred_asset_classes |-> <<>>, forbidden_assets |-> <<>>]

NoConstraints ==
    [max_etf_count |-> <<>>, min_market_cap |-> <<>>, max_expense_ratio |-> <<>>]

NoResult == [success |-> FALSE, error |-> "not called", etf_allocations |-> <<>>]

\* the requests the model issues
GenElements ==
    [risk_tolerance : RiskLevels,
     target_return : {<<>>, <<12>>},
     preferred_asset_classes : {<<>>, <<Commodity>>, <<Stock, Bond>>},
     forbidden_assets : {<<>>, <<Bond>>}]

GenConstraints ==
    [max_etf_count : {<<>>, <<2>>, <<-1>>},
     min_market_cap : {<<>>, <<50>>},
     max_expense_ratio : {<<>>}]
    \cup
    [max_etf_count : {<<>>, <<2>>, <<-1>>},
     min_market_cap : {<<>>},
     max_expense_ratio : {<<50>>}]

AllocIdle == etf_pool = <<>> /\ optElements = NoElements /\ weights = <<>>

NoEstimates ==
    [expected_annual_return |-> 0, expected_volatility |-> 0,
     expected_max_drawdown |-> 0, expected_sharpe_ratio |-> 0,
     confidence_level |-> 0]

NoOptResult ==
    [success |-> FALSE, impl |-> "none", adjustments |-> <<>>,
     feedback_type |-> "none", etf_allocations |-> <<>>,
     performance_estimates |-> NoEstimates, changes_summary |-> <<>>]

OptIdle ==
    strategy = <<>> /\ origStrategy = <<>> /\ estimates = NoEstimates
    /\ feedback = NoText /\ optResult = NoOptResult /\ rebalanced = <<>>

NoMetrics == [keys |-> {}, total_return |-> 0, max_drawdown |-> 0, win_rate |-> 0]

MetricsIdle ==
    portfolio_returns = <<>> /\ benchmark_returns = "none" /\ metrics = NoMetrics

NoWind == [connects |-> FALSE, benchmark |-> FALSE, prices |-> <<>>]

BacktestIdle ==
    wind_service = NoWind /\ strategy_config = <<>> /\ backtests = <<>>

NoUniverse == [impl |-> "none", etfs |-> <<>>]

UniverseIdle == etf_universe = NoUniverse

CallsIdle == calls = <<>>

\* no session, no determine_stage call
NoFlow == [last_stage |-> <<>>, message |-> <<>>, collected |-> {},
           is_new_user |-> TRUE, stage |-> <<>>]

ConversationIdle == session_context = <<>> /\ turns = <<>>

FlowIdle == flow = NoFlow

SocketsIdle ==
    /\ active_connections = <<>>
    /\ user_sessions = <<>>
    /\ ws_tasks = <<>>
    /\ registration = <<>>

StoreIdle == db_strategy = <<>> /\ strategy_cache = <<>> /\ requests = <<>>

SessionsIdle == ConversationIdle /\ FlowIdle /\ SocketsIdle /\ StoreIdle

ServicesIdle == UniverseIdle /\ CallsIdle /\ SessionsIdle

GenIdle ==
    catalog = <<>> /\ elements = NoElements /\ constraints = NoConstraints
    /\ genResult = NoResult

InitGen ==
    /\ pc = "idle"
    /\ catalog \in Catalogs
    /\ elements = NoElements
    /\ constraints = NoConstraints
    /\ genResult = NoResult
    /\ AllocIdle
    /\ OptIdle
    /\ MetricsIdle
    /\ BacktestIdle
    /\ ServicesIdle

GenerateStrategy(el, cons) ==
    /\ pc = "idle"
    /\ elements' = el
    /\ constraints' = cons
    /\ genResult' = generate_strategy(catalog, el, cons)
    /\ pc' = "generated"
    /\ UNCHANGED <<catalog, allocVars, optVars, metricVars, backtestVars, serviceVars>>

NextGen == \E el \in GenElements, cons \in GenConstraints : GenerateStrategy(el, cons)

SpecGen == InitGen /\ [][NextGen]_vars

TotalWeight(allocations) ==
    SumInts([i \in DOMAIN allocations |-> allocations[i].weight])

----------------------------------------------------------------------------
(* Claims about generate_strategy, checked under SpecGen *)

Abs(x) == IF x < 0 THEN -x ELSE x

\* C1: in every successful result of generate_strategy whose allocation list
\* is non-empty, the allocation weights (percent) sum to 100 within 0.01,
\* pools with a candidate at or below the 1% materiality threshold included.
\* Weights are in hundredths of a percent, so 100 is 10000 and 0.01 is 1.
C1_WeightsSumTo100 ==
    (pc = "generated" /\ genResult.success /\ genResult.etf_allocations # <<>>)
        => Abs(TotalWeight(genResult.etf_allocations) - 10000) < 1

\* C2: generate_strategy never returns an empty but successful strategy: an
\* empty universe gives success = false with the "no eligible" error, and a
\* successful result has a non-empty etf_allocations list.
C2_NoEmptySuccess ==
    pc = "generated" =>
        /\ (build_etf_universe(catalog, elements, constraints) = <<>>
              => ~genResult.success /\ genResult.error = NoEligibleEtf)
        /\ (genResult.success => genResult.etf_allocations # <<>>)

\* C7: in every successful result every allocation weight is >= 0 and the
\* number of allocations is at most max_etf_count (12 when the caller gives
\* none), whatever value the caller passes.
C7_CountWithinMax ==
    (pc = "generated" /\ genResult.success) =>
        /\ \A i \in DOMAIN genResult.etf_allocations :
               genResult.etf_allocations[i].weight >= 0
        /\ Len(genResult.etf_allocations)
               <= (IF constraints.max_etf_count = <<>> THEN DefaultMaxEtfCount
                   ELSE constraints.max_etf_count[1])

----------------------------------------------------------------------------
(* _optimize_portfolio as a function of its arguments *)

AllocLabels == {Stock, Bond, Commodity, BondEnLabel, MixedLabel}

RECURSIVE LabelSeqs(_)
LabelSeqs(n) ==
    IF n = 0 THEN {<<>>}
    ELSE {Append(s, l) : s \in LabelSeqs(n - 1), l \in AllocLabels}

PoolOf(labels) ==
    [i \in DOMAIN labels |->
        [code |-> i, asset_class |-> labels[i], sector |-> NoText]]

AllocPools == UNION {{PoolOf(ls) : ls \in LabelSeqs(n)} : n \in 1..MaxPool}

TargetReturns == {<<>>, <<0>>, <<5>>, <<8>>, <<12>>}

AllocElements ==
    [risk_tolerance : RiskLevels, target_return : TargetReturns,
     preferred_asset_classes : {<<>>}, forbidden_assets : {<<>>}]

InitAlloc ==
    /\ pc = "idle"
    /\ etf_pool \in AllocPools
    /\ optElements = NoElements
    /\ weights = <<>>
    /\ GenIdle
    /\ OptIdle
    /\ MetricsIdle
    /\ BacktestIdle
    /\ ServicesIdle

OptimizePortfolio(el) ==
    /\ pc = "idle"
    /\ optElements' = el
    /\ weights' = optimize_portfolio(etf_pool, el)
    /\ pc' = "optimized"
    /\ UNCHANGED <<etf_pool, genVars, optVars, metricVars, backtestVars, serviceVars>>

NextAlloc == \E el \in AllocElements : OptimizePortfolio(el)

SpecAlloc == InitAlloc /\ [][NextAlloc]_vars

----------------------------------------------------------------------------
(* Claims about the Allocation Engine, checked under SpecAlloc *)

ROne == [n |-> 1, d |-> 1]

\* C3: for every non-empty candidate list, each risk level and any
\* target_return, _optimize_portfolio returns one weight per candidate and
\* the weights sum to 1.
C3_WeightsSumToOne ==
    pc = "optimized" =>
        /\ Len(weights) = Len(etf_pool)
        /\ RSum(weights) = ROne

\* the policy table of the specification, in percent
PolicyTable(risk_tolerance, bucket) ==
    CASE risk_tolerance = Conservative ->
            (CASE bucket = "stock" -> 25 [] bucket = "bond" -> 70 [] OTHER -> 5)
      [] risk_tolerance = Balanced ->
            (CASE bucket = "stock" -> 60 [] bucket = "bond" -> 40 [] OTHER -> 0)
      [] risk_tolerance = Aggressive ->
            (CASE bucket = "stock" -> 80 [] bucket = "bond" -> 15 [] OTHER -> 5)
      [] OTHER ->
            (CASE bucket = "stock" -> 90 [] bucket = "bond" -> 0 [] OTHER -> 10)

BucketMembers(pool, bucket) ==
    {i \in DOMAIN pool : ConservativeBucket(pool[i].asset_class) = bucket}

\* C4: with at least one candidate in each of the three buckets and no
\* target_return, every candidate's weight is its bucket's share of the
\* policy table divided by the number of candidates in that bucket.
C4_PolicyTable ==
    (/\ pc = "optimized"
     /\ optElements.target_return = <<>>
     /\ \A b \in {"stock", "bond", "other"} : BucketMembers(etf_pool, b) # {})
    => \A i \in DOMAIN etf_pool :
         LET b == ConservativeBucket(etf_pool[i].asset_class)
         IN  weights[i] =
                 RDiv(Rat(PolicyTable(optElements.risk_tolerance, b), 100),
                      Rat(Cardinality(BucketMembers(etf_pool, b)), 1))

BucketName(group) ==
    IF group = Stock THEN "stock" ELSE IF group = Bond THEN "bond" ELSE "other"

\* C5: every label is put in the same bucket by _conservative_weights, by
\* _asset_class_weights (for the balanced, aggressive and speculative
\* tables) and by both branches of _adjust_weights_for_target_return.
C5_SameBucketEverywhere ==
    pc = "optimized" =>
        \A i \in DOMAIN etf_pool :
            LET label == etf_pool[i].asset_class
                b == ConservativeBucket(label)
            IN  /\ BucketName(GroupOf(label, Keys(BalancedAllocation))) = b
                /\ BucketName(GroupOf(label, Keys(AggressiveAllocation))) = b
                /\ BucketName(GroupOf(label, Keys(SpeculativeAllocation))) = b
                /\ AdjustClass(label, TRUE) = b
                /\ AdjustClass(label, FALSE) = b

\* the weights the specification prescribes for a supplied target_return
\* t: stock x1.2 and bond x0.8 above 10, bond x1.3 and stock x0.7 below 6,
\* the base weights otherwise; then renormalised
TargetAdjusted(pool, risk_tolerance, t) ==
    LET base == BaseWeights(pool, risk_tolerance)
        Factor(i) ==
            IF t > 10
            THEN CASE AdjustClass(pool[i].asset_class, TRUE) = "stock" -> Rat(12, 10)
                   [] AdjustClass(pool[i].asset_class, TRUE) = "bond" -> Rat(8, 10)
                   [] OTHER -> ROne
            ELSE IF t < 6
            THEN CASE AdjustClass(pool[i].asset_class, FALSE) = "bond" -> Rat(13, 10)
                   [] AdjustClass(pool[i].asset_class, FALSE) = "stock" -> Rat(7, 10)
                   [] OTHER -> ROne
            ELSE ROne
    IN  Normalize([i \in DOMAIN pool |-> RMul(base[i], Factor(i))])

\* C6: whenever a target_return is supplied, the result is the base weights
\* scaled as the specification says for that value (0 and every other value
\* below 6 included) and renormalised.
C6_TargetReturnAdjusts ==
    (pc = "optimized" /\ optElements.target_return # <<>>) =>
        weights = TargetAdjusted(etf_pool, optElements.risk_tolerance,
                                 optElements.target_return[1])

----------------------------------------------------------------------------
(* Feedback Optimizer: StrategyEngine.optimize_strategy and               *)
(* StrategyOptimizationTool._run.  An allocation is [asset_class, weight]; *)
(* weight is in hundredths of a percent.                                   *)

RiskTooHigh == <<"feng", "xian", "tai", "gao">>
DrawdownTooBig == <<"hui", "che", "tai", "da">>
ReturnTooLow == <<"shou", "yi", "tai", "di">>
ReturnNotEnough == <<"shou", "yi", "bu", "gou">>
Ratio == <<"bi", "li">>
Adjust == <<"tiao", "zheng">>
Modify == <<"xiu", "gai">>
Risk == <<"feng", "xian">>
TooHigh == <<"tai", "gao">>
Reduce == <<"jiang", "di">>
Return == <<"shou", "yi">>
TooLow == <<"tai", "di">>
Raise == <<"ti", "gao">>

\* StrategyEngine._analyze_feedback
analyze_feedback(content) ==
    LET risk == Contains(RiskTooHigh, content) \/ Contains(DrawdownTooBig, content)
        ret == Contains(ReturnTooLow, content) \/ Contains(ReturnNotEnough, content)
        reb == Contains(Ratio, content)
               /\ (Contains(Adjust, content) \/ Contains(Modify, content))
    IN  [feedback_type |->
            IF reb THEN "allocation_adjustment"
            ELSE IF ret THEN "return_enhancement"
            ELSE IF risk THEN "risk_reduction"
            ELSE "general",
         adjustments |->
            (IF risk THEN <<"reduce_risk">> ELSE <<>>)
            \o (IF ret THEN <<"increase_return">> ELSE <<>>)
            \o (IF reb THEN <<"rebalance">> ELSE <<>>)]

\* the renormalisation every transformation ends with:
\* round(weight / total_weight * 100, 2) when total_weight > 0
Renormalize(allocs, raw) ==
    LET total_weight == RSum(raw)
    IN  [i \in DOMAIN allocs |->
            [asset_class |-> allocs[i].asset_class,
             weight |-> IF total_weight.n > 0
                        THEN Round2(RMul(RDiv(raw[i], total_weight), Rat(100, 1)))
                        ELSE allocs[i].weight]]

Pct(weight) == Rat(weight, 100)

\* the class the engine's transformations give a label
EngineClass(label) ==
    LET asset_class == LowerText(label)
    IN  IF Contains(Stock, asset_class) THEN "stock"
        ELSE IF Contains(Bond, asset_class) THEN "bond"
        ELSE "other"

\* the class StrategyOptimizationTool._adjust_risk_level gives a label
ToolClass(label) ==
    LET asset_class == LowerText(label)
    IN  IF Contains(Stock, asset_class) \/ Contains(EquityEn, asset_class)
        THEN "stock"
        ELSE IF Contains(Bond, asset_class) \/ Contains(BondEn, asset_class)
        THEN "bond"
        ELSE "other"

\* StrategyEngine._reduce_strategy_risk
reduce_strategy_risk(allocs) ==
    LET Raw(i) ==
            LET class == EngineClass(allocs[i].asset_class)
                weight == Pct(allocs[i].weight)
            IN  CASE class = "stock" -> RMax(RMul(weight, Rat(8, 10)), Rat(5, 1))
                  [] class = "bond" -> RMin(RMul(weight, Rat(14, 10)), Rat(60, 1))
                  [] OTHER -> weight
    IN  Renormalize(allocs, [i \in DOMAIN allocs |-> Raw(i)])

\* StrategyEngine._increase_strategy_return
increase_strategy_return(allocs) ==
    LET Raw(i) ==
            LET class == EngineClass(allocs[i].asset_class)
                weight == Pct(allocs[i].weight)
            IN  CASE class = "stock" -> RMin(RMul(weight, Rat(13, 10)), Rat(80, 1))
                  [] class = "bond" -> RMax(RMul(weight, Rat(7, 10)), Rat(10, 1))
                  [] OTHER -> weight
    IN  Renormalize(allocs, [i \in DOMAIN allocs |-> Raw(i)])

\* _rebalance_strategy rounding to one decimal instead of two
rebalance_strategy_one_decimal(allocs) ==
    LET total_weight == RSum([i \in DOMAIN allocs |-> Pct(allocs[i].weight)])
    IN  [i \in DOMAIN allocs |->
            [asset_class |-> allocs[i].asset_class,
             weight |-> IF total_weight.n > 0
                        THEN 10 * RoundHalfEven(
                                 RMul(RDiv(Pct(allocs[i].weight), total_weight),
                                      Rat(1000, 1)))
                        ELSE allocs[i].weight]]

\* StrategyEngine._rebalance_strategy
rebalance_strategy(allocs) ==
    Renormalize(allocs, [i \in DOMAIN allocs |-> Pct(allocs[i].weight)])

\* StrategyEngine._apply_optimization
apply_optimization(allocs, adjustments) ==
    LET Has(a) == \E k \in DOMAIN adjustments : adjustments[k] = a
        s1 == IF Has("reduce_risk") THEN reduce_strategy_risk(allocs) ELSE allocs
        s2 == IF Has("increase_return") THEN increase_strategy_return(s1) ELSE s1
    IN  IF Has("rebalance") THEN rebalance_strategy(s2) ELSE s2

\* StrategyOptimizationTool._analyze_user_feedback: the feedback_type
analyze_user_feedback(feedback_text) ==
    LET risk == Contains(Risk, feedback_text)
                /\ (Contains(TooHigh, feedback_text) \/ Contains(Reduce, feedback_text))
        ret == Contains(Return, feedback_text)
               /\ (Contains(TooLow, feedback_text) \/ Contains(Raise, feedback_text))
        reb == Contains(Ratio, feedback_text)
    IN  IF reb THEN "allocation_adjustment"
        ELSE IF ret THEN "return_enhancement"
        ELSE IF risk THEN "risk_reduction"
        ELSE "general"

\* _adjust_risk_level without the cap on the bond entries and the floor on
\* the equity entries of the "conservative" direction
adjust_risk_level_uncapped(allocs, direction) ==
    LET Raw(i) ==
            LET class == ToolClass(allocs[i].asset_class)
                weight == Pct(allocs[i].weight)
            IN  IF direction = "conservative"
                THEN CASE class = "stock" -> RMul(weight, Rat(8, 10))
                       [] class = "bond" -> RMul(weight, Rat(13, 10))
                       [] OTHER -> weight
                ELSE IF direction = "aggressive"
                THEN CASE class = "stock" -> RMin(RMul(weight, Rat(12, 10)), Rat(70, 1))
                       [] class = "bond" -> RMax(RMul(weight, Rat(7, 10)), Rat(10, 1))
                       [] OTHER -> weight
                ELSE weight
    IN  Renormalize(allocs, [i \in DOMAIN allocs |-> Raw(i)])

\* StrategyOptimizationTool._adjust_risk_level
adjust_risk_level(allocs, direction) ==
    LET Raw(i) ==
            LET class == ToolClass(allocs[i].asset_class)
                weight == Pct(allocs[i].weight)
            IN  IF direction = "conservative"
                THEN CASE class = "stock" -> RMax(RMul(weight, Rat(8, 10)), Rat(5, 1))
                       [] class = "bond" -> RMin(RMul(weight, Rat(13, 10)), Rat(50, 1))
                       [] OTHER -> weight
                ELSE IF direction = "aggressive"
                THEN CASE class = "stock" -> RMin(RMul(weight, Rat(12, 10)), Rat(70, 1))
                       [] class = "bond" -> RMax(RMul(weight, Rat(7, 10)), Rat(10, 1))
                       [] OTHER -> weight
                ELSE weight
    IN  Renormalize(allocs, [i \in DOMAIN allocs |-> Raw(i)])

\* StrategyOptimizationTool._rebalance_allocations
rebalance_allocations(allocs) ==
    Renormalize(allocs, [i \in DOMAIN allocs |-> Pct(allocs[i].weight)])

\* _generate_optimization_suggestions followed by _apply_optimizations
apply_optimizations(allocs, feedback_type) ==
    CASE feedback_type = "risk_reduction" -> adjust_risk_level(allocs, "conservative")
      [] feedback_type = "return_enhancement" -> adjust_risk_level(allocs, "aggressive")
      [] feedback_type = "allocation_adjustment" -> rebalance_allocations(allocs)
      [] OTHER -> allocs

ScenarioCText ==
    RiskTooHigh \o <<",", "neng", "fou">> \o Reduce \o <<"hui", "che">>

FeedbackTexts ==
    {ScenarioCText, ReturnTooLow, RiskTooHigh \o ReturnTooLow,
     Ratio \o Adjust, <<"ni", "hao">>}

OptLabels == {Stock, Bond, Commodity, EquityEn}

OptWeights == {500, 4000, 6000}

RECURSIVE AllocSeqs(_)
AllocSeqs(n) ==
    IF n = 0 THEN {<<>>}
    ELSE {Append(s, a) : s \in AllocSeqs(n - 1),
                         a \in [asset_class : OptLabels, weight : OptWeights]}

Strategies == UNION {AllocSeqs(n) : n \in 1..MaxAllocs}

\* StrategyEngine._estimate_strategy_performance, in hundredths:
\* asset_summary_stock is strategy_config["asset_summary"].get("gupiao"),
\* risk_tolerance is elements.get("risk_tolerance"), both optional.
\* adjustment = (stock / 100 - 0.6) * 2 is added to bases of at least 5.5.
estimate_strategy_performance(asset_summary_stock, risk_tolerance) ==
    LET level == IF risk_tolerance = <<>> THEN Balanced ELSE risk_tolerance[1]
        base ==
            CASE level = Conservative ->
                    [return |-> 550, volatility |-> 800, drawdown |-> 600, sharpe |-> 60]
              [] level = Aggressive ->
                    [return |-> 1200, volatility |-> 1800, drawdown |-> 1500, sharpe |-> 90]
              [] level = Speculative ->
                    [return |-> 1500, volatility |-> 2500, drawdown |-> 2500, sharpe |-> 80]
              [] OTHER ->
                    [return |-> 800, volatility |-> 1200, drawdown |-> 1000, sharpe |-> 80]
        stock == IF asset_summary_stock = <<>> THEN 0 ELSE asset_summary_stock[1]
        \* 100 * (b / 100 + adjustment * num / den), rounded
        Adjusted(b, num, den) ==
            RoundHalfEven(Rat(b * 50 * den + num * (stock - 6000), 50 * den))
    IN  [expected_annual_return |-> Adjusted(base.return, 1, 1),
         expected_volatility |-> Adjusted(base.volatility, 3, 2),
         expected_max_drawdown |-> Adjusted(base.drawdown, 1, 1),
         expected_sharpe_ratio |-> base.sharpe,
         confidence_level |-> 75]

\* asset_summary["gupiao"] of _build_strategy_config: the weight of the
\* entries whose asset_class is exactly that label, absent when there is none
AssetSummaryStock(allocs) ==
    LET stock == SelectSeq(allocs, LAMBDA a : a.asset_class = Stock)
    IN  IF stock = <<>> THEN <<>>
        ELSE <<SumInts([i \in DOMAIN stock |-> stock[i].weight])>>

\* the risk levels the caller's strategy may have been generated for: the
\* default of elements.get("risk_tolerance", "wenjian")
OptRiskLevels == {Balanced}

\* the caller's strategy is one generate_strategy built: its
\* performance_estimates were computed from its own asset_summary and the
\* risk_tolerance of its investment elements
InitOpt ==
    /\ pc = "idle"
    /\ strategy \in Strategies
    /\ origStrategy = <<>>
    /\ \E level \in OptRiskLevels :
           estimates = estimate_strategy_performance(AssetSummaryStock(strategy),
                                                     <<level>>)
    /\ feedback = NoText
    /\ optResult = NoOptResult
    /\ rebalanced = <<>>
    /\ GenIdle
    /\ AllocIdle
    /\ MetricsIdle
    /\ BacktestIdle
    /\ ServicesIdle

\* the messages of a change list: one per position of zip(original,
\* optimized) whose weights differ by more than 1, or the one message
\* `unchanged` when there is none
ChangeMessages(original, optimized, unchanged) ==
    LET n == IF Len(original) < Len(optimized) THEN Len(original) ELSE Len(optimized)
        RECURSIVE Changes(_)
        Changes(i) ==
            IF i > n THEN <<>>
            ELSE (IF Abs(original[i].weight - optimized[i].weight) > 100
                  THEN <<[message |-> IF optimized[i].weight > original[i].weight
                                      THEN "increased" ELSE "decreased",
                          etf |-> i,
                          orig_weight |-> original[i].weight,
                          opt_weight |-> optimized[i].weight]>>
                  ELSE <<>>) \o Changes(i + 1)
    IN  IF Changes(1) = <<>>
        THEN <<[message |-> unchanged, etf |-> 0, orig_weight |-> 0, opt_weight |-> 0]>>
        ELSE Changes(1)

\* StrategyEngine._summarize_changes
summarize_changes(original, optimized) ==
    ChangeMessages(original, optimized, "minor adjustment")

\* StrategyOptimizationTool._summarize_changes
tool_summarize_changes(original, optimized) ==
    ChangeMessages(original, optimized, "no significant change")

\* StrategyEngine.optimize_strategy.  _apply_optimization copies the strategy
\* dict, not the allocation dicts: the transformations write the weights
\* into the caller's allocation dicts, and _summarize_changes reads the
\* original weights from those same dicts.  The copy has no "asset_summary"
\* and the caller's strategy no "investment_elements" key (generate_strategy
\* names them asset_allocation and risk_level).
EngineOptimize(content) ==
    LET analysis == analyze_feedback(content)
        optimized == apply_optimization(strategy, analysis.adjustments)
    IN  /\ pc = "idle"
        /\ feedback' = content
        /\ origStrategy' = strategy
        /\ strategy' = optimized
        /\ optResult' = [success |-> TRUE, impl |-> "engine",
                         adjustments |-> analysis.adjustments,
                         feedback_type |-> analysis.feedback_type,
                         etf_allocations |-> optimized,
                         performance_estimates |->
                             estimate_strategy_performance(<<>>, <<>>),
                         changes_summary |-> summarize_changes(strategy', optimized)]
        /\ pc' = "fed_back"
        /\ UNCHANGED <<genVars, allocVars, estimates, rebalanced, metricVars, backtestVars, serviceVars>>

\* StrategyOptimizationTool._run: _apply_optimizations copies the strategy
\* dict in the same way and keeps its performance_estimates
ToolRun(content) ==
    LET feedback_type == analyze_user_feedback(content)
        optimized == apply_optimizations(strategy, feedback_type)
    IN  /\ pc = "idle"
        /\ feedback' = content
        /\ origStrategy' = strategy
        /\ strategy' = optimized
        /\ optResult' = [success |-> TRUE, impl |-> "tool",
                         adjustments |-> <<>>,
                         feedback_type |-> feedback_type,
                         etf_allocations |-> optimized,
                         performance_estimates |-> estimates,
                         changes_summary |->
                             tool_summarize_changes(strategy', optimized)]
        /\ pc' = "fed_back"
        /\ UNCHANGED <<genVars, allocVars, estimates, rebalanced, metricVars, backtestVars, serviceVars>>

NextOpt ==
    \/ \E content \in FeedbackTexts : ToolRun(content)
    \/ \E content \in FeedbackTexts : EngineOptimize(content)

SpecOpt == InitOpt /\ [][NextOpt]_vars

----------------------------------------------------------------------------
(* Claims about the Feedback Optimizer, checked under SpecOpt *)

\* the class the implementation that ran gives a label
ImplClass(label) ==
    IF optResult.impl = "engine" THEN EngineClass(label) ELSE ToolClass(label)

\* the call applied the risk_reduction transformation and nothing else
RiskReductionApplied ==
    /\ pc = "fed_back"
    /\ \/ optResult.impl = "engine" /\ optResult.adjustments = <<"reduce_risk">>
       \/ optResult.impl = "tool" /\ optResult.feedback_type = "risk_reduction"

\* the call applied the return_enhancement transformation and nothing else
ReturnEnhancementApplied ==
    /\ pc = "fed_back"
    /\ \/ optResult.impl = "engine" /\ optResult.adjustments = <<"increase_return">>
       \/ optResult.impl = "tool" /\ optResult.feedback_type = "return_enhancement"

\* the weights (hundredths of a percent) that scaling stock entries by
\* stockFactor and bond entries by bondFactor, bounding them with the given
\* floor or cap and renormalising to 100% gives
Transformed(allocs, stockFactor, StockBound(_), bondFactor, BondBound(_)) ==
    LET Raw(i) ==
            CASE ImplClass(allocs[i].asset_class) = "stock" ->
                    StockBound(RMul(Pct(allocs[i].weight), stockFactor))
              [] ImplClass(allocs[i].asset_class) = "bond" ->
                    BondBound(RMul(Pct(allocs[i].weight), bondFactor))
              [] OTHER -> Pct(allocs[i].weight)
        total == RSum([i \in DOMAIN allocs |-> Raw(i)])
    IN  [i \in DOMAIN allocs |-> Round2(RMul(RDiv(Raw(i), total), Rat(100, 1)))]

ResultWeights ==
    [i \in DOMAIN optResult.etf_allocations |-> optResult.etf_allocations[i].weight]

\* C8: risk_reduction, in the engine and in the tool, sets every equity
\* entry to max(0.8 w, 5), every bond entry to min(1.3 w, 50), leaves the
\* other entries, and renormalises all entries to 100%.
C8_RiskReduction ==
    RiskReductionApplied =>
        ResultWeights =
            Transformed(origStrategy,
                        Rat(8, 10), LAMBDA x : RMax(x, Rat(5, 1)),
                        Rat(13, 10), LAMBDA x : RMin(x, Rat(50, 1)))

\* C10: return_enhancement, in the engine and in the tool, sets every equity
\* entry to min(1.2 w, 70), every bond entry to max(0.7 w, 10), leaves the
\* other entries, and renormalises all entries to 100%.
C10_ReturnEnhancement ==
    ReturnEnhancementApplied =>
        ResultWeights =
            Transformed(origStrategy,
                        Rat(12, 10), LAMBDA x : RMin(x, Rat(70, 1)),
                        Rat(7, 10), LAMBDA x : RMax(x, Rat(10, 1)))

ScenarioCStrategy ==
    <<[asset_class |-> Stock, weight |-> 6000],
      [asset_class |-> Bond, weight |-> 4000]>>

ScenarioCApplied ==
    pc = "fed_back" /\ feedback = ScenarioCText /\ origStrategy = ScenarioCStrategy

EngineRule(category, content) ==
    CASE category = "risk_reduction" ->
            Contains(RiskTooHigh, content) \/ Contains(DrawdownTooBig, content)
      [] category = "return_enhancement" ->
            Contains(ReturnTooLow, content) \/ Contains(ReturnNotEnough, content)
      [] category = "allocation_adjustment" ->
            Contains(Ratio, content)
            /\ (Contains(Adjust, content) \/ Contains(Modify, content))
      [] OTHER -> TRUE

\* the keyword rule of a category, as
\* StrategyOptimizationTool._analyze_user_feedback tests it
ToolRule(category, feedback_text) ==
    CASE category = "risk_reduction" ->
            Contains(Risk, feedback_text)
            /\ (Contains(TooHigh, feedback_text) \/ Contains(Reduce, feedback_text))
      [] category = "return_enhancement" ->
            Contains(Return, feedback_text)
            /\ (Contains(TooLow, feedback_text) \/ Contains(Raise, feedback_text))
      [] category = "allocation_adjustment" -> Contains(Ratio, feedback_text)
      [] OTHER -> TRUE

\* the first category, in the order risk_reduction > return_enhancement >
\* rebalance (allocation_adjustment) > none (general), whose rule matches
FirstMatch(Rule(_, _), text) ==
    IF Rule("risk_reduction", text) THEN "risk_reduction"
    ELSE IF Rule("return_enhancement", text) THEN "return_enhancement"
    ELSE IF Rule("allocation_adjustment", text) THEN "allocation_adjustment"
    ELSE "general"

\* the transformation of one category alone, as the engine implements it
EngineOnly(category, allocs) ==
    CASE category = "risk_reduction" -> reduce_strategy_risk(allocs)
      [] category = "return_enhancement" -> increase_strategy_return(allocs)
      [] category = "allocation_adjustment" -> rebalance_strategy(allocs)
      [] OTHER -> allocs

\* C11: the reported category is the first match in the order
\* risk_reduction > return_enhancement > rebalance > none, and the returned
\* allocations are the input with that category's transformation, and only
\* that one, applied.
C11_FirstMatchOnly ==
    pc = "fed_back" =>
        LET category ==
                IF optResult.impl = "engine" THEN FirstMatch(EngineRule, feedback)
                ELSE FirstMatch(ToolRule, feedback)
        IN  /\ optResult.feedback_type = category
            /\ optResult.etf_allocations =
                   IF optResult.impl = "engine"
                   THEN EngineOnly(category, origStrategy)
                   ELSE apply_optimizations(origStrategy, category)

----------------------------------------------------------------------------
(* Repeated rebalancing of a normalised configuration *)

MaxRebalances == 2

\* weights, in hundredths of a percent, as _build_strategy_config and the
\* transformations leave them: rounded to two decimals
NormWeights == {1, 1666, 1667, 3333, 3334, 4999, 5000, 5001}

RECURSIVE NormSeqs(_)
NormSeqs(n) ==
    IF n = 0 THEN {<<>>}
    ELSE {Append(s, [asset_class |-> Stock, weight |-> w]) :
            s \in NormSeqs(n - 1), w \in NormWeights}

\* the configurations whose weights sum to 100 within 0.01
NormalizedStrategies ==
    {s \in UNION {NormSeqs(n) : n \in 1..MaxAllocs} :
        Abs(TotalWeight(s) - 10000) <= 1}

InitRebal ==
    /\ pc = "idle"
    /\ strategy \in NormalizedStrategies
    /\ origStrategy = <<>>
    /\ estimates = NoEstimates
    /\ feedback = NoText
    /\ optResult = NoOptResult
    /\ rebalanced = <<>>
    /\ GenIdle
    /\ AllocIdle
    /\ MetricsIdle
    /\ BacktestIdle
    /\ ServicesIdle

\* one more call of StrategyEngine._rebalance_strategy on the same strategy
RebalanceStrategy ==
    /\ pc \in {"idle", "rebalanced"}
    /\ Len(rebalanced) < MaxRebalances
    /\ origStrategy' = IF rebalanced = <<>> THEN strategy ELSE origStrategy
    /\ strategy' = rebalance_strategy(strategy)
    /\ rebalanced' = Append(rebalanced, [impl |-> "engine",
                                         etf_allocations |-> strategy'])
    /\ pc' = "rebalanced"
    /\ UNCHANGED <<genVars, allocVars, estimates, feedback, optResult, metricVars, backtestVars, serviceVars>>

\* one more call of StrategyOptimizationTool._rebalance_allocations
RebalanceAllocations ==
    /\ pc \in {"idle", "rebalanced"}
    /\ Len(rebalanced) < MaxRebalances
    /\ origStrategy' = IF rebalanced = <<>> THEN strategy ELSE origStrategy
    /\ strategy' = rebalance_allocations(strategy)
    /\ rebalanced' = Append(rebalanced, [impl |-> "tool",
                                         etf_allocations |-> strategy'])
    /\ pc' = "rebalanced"
    /\ UNCHANGED <<genVars, allocVars, estimates, feedback, optResult, metricVars, backtestVars, serviceVars>>

NextRebal == RebalanceStrategy \/ RebalanceAllocations

SpecRebal == InitRebal /\ [][NextRebal]_vars

----------------------------------------------------------------------------
(* Further claims about the Feedback Optimizer, checked under SpecOpt *)

\* the positions the returned change list has an entry for
ReportedChanges ==
    {optResult.changes_summary[k].etf : k \in DOMAIN optResult.changes_summary}
        \ {0}

\* C13: after a successful call the change list has an entry for exactly
\* the instruments whose returned weight differs by more than 1 percentage
\* point from the weight in the strategy the caller passed in.
C13_ChangeList ==
    (pc = "fed_back" /\ optResult.success) =>
        ReportedChanges =
            {i \in DOMAIN origStrategy :
                Abs(origStrategy[i].weight
                    - optResult.etf_allocations[i].weight) > 100}

\* C14: after StrategyEngine.optimize_strategy every allocation weight
\* reachable from the caller's current_strategy has the value it had
\* before the call.
C14_CallerUnmodified ==
    (pc = "fed_back" /\ optResult.impl = "engine") => strategy = origStrategy

\* C15: when the feedback matches no keyword rule, the optimized_strategy
\* StrategyEngine.optimize_strategy returns has the allocation weights and
\* the performance estimates of the input strategy.
C15_NoneReturnsInput ==
    (pc = "fed_back" /\ optResult.impl = "engine"
     /\ FirstMatch(EngineRule, feedback) = "general") =>
        /\ optResult.etf_allocations = origStrategy
        /\ optResult.performance_estimates = estimates

----------------------------------------------------------------------------
(* Performance metrics: BacktestEngine._calculate_performance_metrics.     *)
(* A return series is a sequence of rationals.  total_return, max_drawdown *)
(* and win_rate are computed exactly; annual_return, volatility and the    *)
(* ratios built on them are powers and roots, of which only the presence   *)
(* in the returned dict is modelled.                                       *)

MaxObservations == 20

RSub(a, b) == RAdd(a, [n |-> -b.n, d |-> b.d])

\* (1 + returns).prod()
RECURSIVE Prod(_)
Prod(returns) ==
    IF returns = <<>> THEN ROne
    ELSE RMul(RAdd(ROne, Head(returns)), Prod(Tail(returns)))

\* (1 + returns).cumprod()
CumProd(returns) == [k \in DOMAIN returns |-> Prod(SubSeq(returns, 1, k))]

\* abs(((cumulative - running_max) / running_max).min())
MaxDrawdown(returns) ==
    LET cumulative_returns == CumProd(returns)
        RECURSIVE RunningMax(_)
        RunningMax(k) ==
            IF k = 1 THEN cumulative_returns[1]
            ELSE RMax(RunningMax(k - 1), cumulative_returns[k])
        Drawdown(k) ==
            RDiv(RSub(RunningMax(k), cumulative_returns[k]), RunningMax(k))
        RECURSIVE Deepest(_)
        Deepest(k) == IF k = 0 THEN RZero ELSE RMax(Deepest(k - 1), Drawdown(k))
    IN  Deepest(Len(returns))

\* the win rate with a day of no change counted as a win
WinRateNonNegative(returns) ==
    Rat(Cardinality({k \in DOMAIN returns : returns[k].n >= 0}), Len(returns))

\* (portfolio_returns > 0).sum() / len(portfolio_returns)
WinRate(returns) ==
    Rat(Cardinality({k \in DOMAIN returns : returns[k].n > 0}), Len(returns))

BaseMetricKeys ==
    {"total_return", "annual_return", "volatility", "max_drawdown",
     "sharpe_ratio", "win_rate"}

BenchmarkMetricKeys ==
    {"benchmark_annual_return", "excess_return", "tracking_error",
     "information_ratio"}

\* what the benchmark argument can be: None, an empty series, a series with
\* no date in common with the portfolio's, or one with common dates
BenchmarkKinds == {"none", "empty", "disjoint", "overlapping"}

\* the keys of the dict _calculate_performance_metrics returns
MetricKeys(returns, benchmark) ==
    IF returns = <<>> THEN {}
    ELSE BaseMetricKeys
         \cup (IF benchmark = "overlapping" THEN BenchmarkMetricKeys ELSE {})

\* BacktestEngine._calculate_performance_metrics
calculate_performance_metrics(returns, benchmark) ==
    IF returns = <<>> THEN NoMetrics
    ELSE [keys |-> MetricKeys(returns, benchmark),
          total_return |-> Round2(RMul(RSub(Prod(returns), ROne), Rat(100, 1))),
          max_drawdown |-> Round2(RMul(MaxDrawdown(returns), Rat(100, 1))),
          win_rate |-> Round2(RMul(WinRate(returns), Rat(100, 1)))]

\* the series 0.01, -0.02, 0.015, 0.0, -0.005
ScenarioDSeries ==
    <<Rat(1, 100), Rat(-2, 100), Rat(15, 1000), RZero, Rat(-5, 1000)>>

\* daily returns repeated to fill a series: flat, a gain of 100% followed by
\* a loss of 50%, and the same starting with the loss
ReturnPatterns ==
    {<<RZero>>, <<Rat(1, 1), Rat(-1, 2)>>, <<Rat(-1, 2), Rat(1, 1)>>}

SeriesOf(pattern, n) ==
    [i \in 1..n |-> pattern[((i - 1) % Len(pattern)) + 1]]

MetricInputs ==
    {SeriesOf(pattern, n) : pattern \in ReturnPatterns, n \in 0..MaxObservations}
    \cup {ScenarioDSeries}

InitMetrics ==
    /\ pc = "idle"
    /\ portfolio_returns \in MetricInputs
    /\ benchmark_returns \in BenchmarkKinds
    /\ metrics = NoMetrics
    /\ GenIdle
    /\ AllocIdle
    /\ OptIdle
    /\ BacktestIdle
    /\ ServicesIdle

CalculatePerformanceMetrics ==
    /\ pc = "idle"
    /\ metrics' = calculate_performance_metrics(portfolio_returns, benchmark_returns)
    /\ pc' = "measured"
    /\ UNCHANGED <<genVars, allocVars, optVars, backtestVars, serviceVars,
                   portfolio_returns, benchmark_returns>>

NextMetrics == CalculatePerformanceMetrics

SpecMetrics == InitMetrics /\ [][NextMetrics]_vars

\* the keys of the result that are not one of its statistics
FlagKeys == metrics.keys \ (BaseMetricKeys \cup BenchmarkMetricKeys)

\* C16: the result of _calculate_performance_metrics carries a flag for
\* insufficient data exactly when the series has fewer than 20
\* observations, and it carries the statistics for 19 and for 20.
C16_InsufficientDataFlag ==
    pc = "measured" =>
        /\ (FlagKeys # {}) <=> (Len(portfolio_returns) < 20)
        /\ Len(portfolio_returns) \in {19, 20} => BaseMetricKeys \subseteq metrics.keys

\* StrategyBacktestTool._calculate_performance_metrics, the "win_rate" entry:
\* round(sum(1 for r in daily_returns if r > 0) / len(daily_returns) * 100, 2)
\* if daily_returns else 0
tool_win_rate(daily_returns) ==
    IF daily_returns = <<>> THEN 0
    ELSE Round2(RMul(Rat(Cardinality({k \in DOMAIN daily_returns :
                                          RLess(RZero, daily_returns[k])}),
                         Len(daily_returns)),
                     Rat(100, 1)))

\* the days of the series with a return strictly greater than 0
Wins == Cardinality({k \in DOMAIN portfolio_returns :
                        RLess(RZero, portfolio_returns[k])})

\* x is y rounded to an integer: 2 * |x * d - n| <= d for y = n / d
IsRounded(x, n, d) ==
    /\ 2 * (x * d - n) <= d
    /\ 2 * (n - x * d) <= d

\* C25: the win_rate reported by both metric calculators is the share of
\* daily returns strictly greater than 0 (a return of exactly 0 is not a
\* win), expressed as a percentage rounded to 2 decimals; for the series
\* 0.01, -0.02, 0.015, 0.0, -0.005 it is 40.0.  (Reported numbers are held
\* in hundredths: 40.0 is 4000.)
C25_WinRate ==
    (pc = "measured" /\ portfolio_returns # <<>>) =>
        /\ IsRounded(metrics.win_rate, 10000 * Wins, Len(portfolio_returns))
        /\ tool_win_rate(portfolio_returns) = metrics.win_rate
        /\ portfolio_returns = ScenarioDSeries => metrics.win_rate = 4000

\* the win rate of the series of Scenario D has been reported
C25_Witness ==
    /\ pc = "measured"
    /\ portfolio_returns = ScenarioDSeries
    /\ metrics.win_rate = 4000

\* C25 as stated: for that series the reported win_rate is 0.4 (40 in
\* hundredths)
C25_WinRate_AsStated ==
    (pc = "measured" /\ portfolio_returns = ScenarioDSeries) =>
        metrics.win_rate = 40

----------------------------------------------------------------------------
(* Backtest simulator: BacktestEngine.run_backtest.  A timestamp is a day  *)
(* number and a time of day (0 is midnight); trade dates of the catalog    *)
(* are at midnight, datetime.now() is wherever the clock stands.           *)

MaxInstruments == 2
MaxRuns == 2
BacktestPeriod == 3

Codes == 1..MaxInstruments

\* what the catalog answers when asked for the prices of an instrument:
\* rows for every day, rows from its listing day on, no rows, an exception
PriceKinds == {"rows", "late", "empty", "fails"}

ListingDay == 9

\* datetime.now() of a call
Clock == [day : {10, 11}, tod : {0, 1}]

Winds == [connects : BOOLEAN, benchmark : BOOLEAN, prices : [Codes -> PriceKinds]]

\* S_DQ_CLOSE of an instrument on a day
ClosePrice(code, day) == 10 * code + (day % 4)

\* WindService.get_etf_price_data: the rows of the days start..end, in order
get_etf_price_data(wind, etf_code, start_day, end_day) ==
    LET first == IF wind.prices[etf_code] = "late" /\ ListingDay > start_day
                 THEN ListingDay ELSE start_day
    IN  IF wind.prices[etf_code] \in {"rows", "late"}
        THEN [k \in 1..(end_day - first + 1) |->
                [trade_date |-> first + k - 1,
                 close_price |-> ClosePrice(etf_code, first + k - 1)]]
        ELSE <<>>

\* the frame _get_etf_historical_data builds from price rows: indexed by
\* trade_date, daily_return = close_price.pct_change(), undefined (<<>>)
\* on the first row
RealFrame(price_data) ==
    [source |-> "real",
     rows |-> [k \in DOMAIN price_data |->
                [date |-> [day |-> price_data[k].trade_date, tod |-> 0],
                 daily_return |->
                    IF k = 1 THEN <<>>
                    ELSE <<RSub(Rat(price_data[k].close_price,
                                    price_data[k - 1].close_price), ROne)>>]]]

\* np.random.seed(42); np.random.normal(0.0008, 0.015, n): the same draws
\* on every call, here to three decimals
MockReturns ==
    <<Rat(8, 1000), Rat(-1, 1000), Rat(11, 1000), Rat(24, 1000), Rat(-3, 1000),
      Rat(-3, 1000), Rat(24, 1000), Rat(12, 1000), Rat(-6, 1000), Rat(9, 1000)>>

\* BacktestEngine._generate_mock_data: one row per day from start_date to
\* end_date, at the time of day of start_date
generate_mock_data(start_date, end_date) ==
    [source |-> "mock",
     rows |-> [k \in 1..(end_date.day - start_date.day + 1) |->
                [date |-> [day |-> start_date.day + k - 1, tod |-> start_date.tod],
                 daily_return |-> <<MockReturns[k]>>]]]

\* BacktestEngine._get_etf_historical_data: {} when the connection cannot
\* be opened; an instrument whose query raises gets mock data, one whose
\* query returns no rows gets no entry
get_etf_historical_data(wind, allocations, start_date, end_date) ==
    LET codes == {allocations[i].etf_code : i \in DOMAIN allocations}
        Rows(code) == get_etf_price_data(wind, code, start_date.day, end_date.day)
    IN  IF ~wind.connects THEN [code \in {} |-> <<>>]
        ELSE [code \in {c \in codes : wind.prices[c] = "fails" \/ Rows(c) # <<>>} |->
                IF wind.prices[code] = "fails"
                THEN generate_mock_data(start_date, end_date)
                ELSE RealFrame(Rows(code))]

Before(a, b) == a.day < b.day \/ (a.day = b.day /\ a.tod < b.tod)

\* the sorted union of the frames' indexes
RECURSIVE SortDates(_)
SortDates(dates) ==
    IF dates = {} THEN <<>>
    ELSE LET first == CHOOSE a \in dates : \A b \in dates \ {a} : Before(a, b)
         IN  <<first>> \o SortDates(dates \ {first})

\* BacktestEngine._calculate_portfolio_returns: the frames' daily_return
\* columns, each times weight / 100, are put side by side on the union of
\* their indexes and summed row by row; sum(skipna=True) of a row without
\* any value is 0.0, so dropna() removes nothing
calculate_portfolio_returns(etf_data, allocations) ==
    LET held == {i \in DOMAIN allocations :
                    allocations[i].etf_code \in DOMAIN etf_data}
        Frame(i) == etf_data[allocations[i].etf_code].rows
        index == SortDates(UNION {{Frame(i)[k].date : k \in DOMAIN Frame(i)} :
                                  i \in held})
        Weighted(i, date) ==
            LET hits == {k \in DOMAIN Frame(i) :
                            Frame(i)[k].date = date /\ Frame(i)[k].daily_return # <<>>}
            IN  IF i \notin held \/ hits = {} THEN RZero
                ELSE RMul(Frame(i)[CHOOSE k \in hits : TRUE].daily_return[1],
                          Rat(allocations[i].weight, 10000))
    IN  IF DOMAIN etf_data = {} \/ held = {} THEN <<>>
        ELSE [j \in DOMAIN index |->
                [date |-> index[j],
                 value |-> RSum([i \in DOMAIN allocations |->
                                    Weighted(i, index[j])])]]

\* BacktestEngine._generate_daily_data: date is strftime('%Y-%m-%d'),
\* daily_return is round(daily_ret * 100, 4) in units of 0.0001 percent
\* (the cumulative columns are not modelled)
generate_daily_data(series) ==
    [j \in DOMAIN series |->
        [date |-> series[j].date.day,
         daily_return |->
            RoundHalfEven(RMul(series[j].value, Rat(1000000, 1)))]]

\* BacktestEngine._get_benchmark_returns, as the benchmark argument of
\* _calculate_performance_metrics: the index has a return on every day of
\* the period after the first
BenchmarkOf(wind, series, start_date, end_date) ==
    IF ~wind.benchmark THEN "none"
    ELSE IF \E j \in DOMAIN series :
                /\ series[j].date.tod = 0
                /\ series[j].date.day \in (start_date.day + 1)..end_date.day
         THEN "overlapping"
         ELSE "disjoint"

\* BacktestEngine.run_backtest at the clock reading now: what it returns
\* (result), with the frames and the series it computed on the way
run_backtest(wind, allocations, now) ==
    LET end_date == now
        start_date == [day |-> now.day - BacktestPeriod, tod |-> now.tod]
        etf_data == get_etf_historical_data(wind, allocations, start_date, end_date)
        series == calculate_portfolio_returns(etf_data, allocations)
        keys == MetricKeys([j \in DOMAIN series |-> series[j].value],
                           BenchmarkOf(wind, series, start_date, end_date))
        daily_data == generate_daily_data(series)
    IN  [now |-> now,
         etf_data |-> etf_data,
         portfolio_returns |-> series,
         result |->
            IF DOMAIN etf_data = {}
            THEN [success |-> FALSE, error |-> "no ETF history",
                  daily_data |-> <<>>, total_days |-> 0, metric_keys |-> {}]
            ELSE IF keys = {}
            THEN [success |-> FALSE, error |-> "total_return",
                  daily_data |-> <<>>, total_days |-> 0, metric_keys |-> {}]
            ELSE IF wind.benchmark
            THEN \* `if benchmark_returns` on a pandas Series raises ValueError
                 [success |-> FALSE, error |-> "truth value of a Series",
                  daily_data |-> <<>>, total_days |-> 0, metric_keys |-> {}]
            ELSE [success |-> TRUE, error |-> "",
                  daily_data |-> daily_data, total_days |-> Len(daily_data),
                  metric_keys |-> keys]]

\* weights of a strategy config, in hundredths of a percent
BacktestWeights == {2000, 4000, 6000, 10000}

\* the strategy configs the backtests are run on: instruments 1..n with
\* weights that sum to 100%
BacktestConfigs ==
    UNION {{[i \in 1..n |-> [etf_code |-> i, weight |-> ws[i]]] :
                ws \in {w \in [1..n -> BacktestWeights] : SumInts(w) = 10000}} :
           n \in 1..MaxInstruments}

InitBacktest ==
    /\ pc = "idle"
    /\ wind_service \in Winds
    /\ strategy_config \in BacktestConfigs
    /\ backtests = <<>>
    /\ GenIdle
    /\ AllocIdle
    /\ OptIdle
    /\ MetricsIdle
    /\ ServicesIdle

\* one more call of run_backtest with the same strategy_config, the same
\* backtest_period and the same catalog; the clock does not run backwards
RunBacktest(now) ==
    /\ pc \in {"idle", "backtested"}
    /\ Len(backtests) < MaxRuns
    /\ backtests # <<>> => ~Before(now, backtests[Len(backtests)].now)
    /\ backtests' = Append(backtests, run_backtest(wind_service, strategy_config, now))
    /\ pc' = "backtested"
    /\ UNCHANGED <<genVars, allocVars, optVars, metricVars, serviceVars,
                   wind_service, strategy_config>>

NextBacktest == \E now \in Clock : RunBacktest(now)

SpecBacktest == InitBacktest /\ [][NextBacktest]_vars

\* the instruments of the config
Allocated == {strategy_config[i].etf_code : i \in DOMAIN strategy_config}

\* the catalog can give the price history of the instrument
Obtainable(code) ==
    wind_service.connects /\ wind_service.prices[code] \in {"rows", "late"}

\* the instruments a run used synthetic data for
UsedSynthetic(run) ==
    {code \in DOMAIN run.etf_data : run.etf_data[code].source = "mock"}

\* C17: when the price history of an allocated instrument cannot be
\* obtained (the query raises, returns no rows, or the connection cannot be
\* opened), run_backtest succeeds, uses the synthetic series for that
\* instrument and real data for every instrument whose history can be
\* obtained.
C17_FallbackPerInstrument ==
    \A r \in DOMAIN backtests :
        (\E code \in Allocated : ~Obtainable(code)) =>
            /\ backtests[r].result.success
            /\ \A code \in Allocated :
                  /\ code \in DOMAIN backtests[r].etf_data
                  /\ backtests[r].etf_data[code].source =
                        IF Obtainable(code) THEN "real" ELSE "mock"

\* the instruments the returned dict names as having used synthetic data:
\* its keys are success, backtest_results, performance_metrics and
\* benchmark_comparison, none of which names an instrument
FlaggedSynthetic(result) == {}

\* C18: the result of a successful run_backtest flags exactly the
\* instruments that used synthetic data.
C18_SyntheticFlagged ==
    \A r \in DOMAIN backtests :
        backtests[r].result.success =>
            FlaggedSynthetic(backtests[r].result) = UsedSynthetic(backtests[r])

\* C19: every date of the portfolio return series is a date on which at
\* least one allocated instrument has a daily return.
C19_OnlyContributedDates ==
    \A r \in DOMAIN backtests :
        \A j \in DOMAIN backtests[r].portfolio_returns :
            \E code \in DOMAIN backtests[r].etf_data :
                \E k \in DOMAIN backtests[r].etf_data[code].rows :
                    /\ backtests[r].etf_data[code].rows[k].date =
                          backtests[r].portfolio_returns[j].date
                    /\ backtests[r].etf_data[code].rows[k].daily_return # <<>>

\* C20: two calls of run_backtest with the same strategy config, the same
\* period and the same catalog return the same series, date for date and
\* value for value.
C20_Deterministic ==
    \A r1, r2 \in DOMAIN backtests :
        /\ backtests[r1].result.success = backtests[r2].result.success
        /\ backtests[r1].result.daily_data = backtests[r2].result.daily_data

----------------------------------------------------------------------------
(* The two Universe Builders: StrategyEngine._build_etf_universe and       *)
(* StrategyGenerationTool._build_etf_pool, on catalogs whose rows may lack *)
(* the optional attributes                                                 *)

MaxUniverse == 3

RealEstate == <<"fang", "di", "chan">>

ToolPreferredLimit == 10
ToolDefaultLimit == 5
ToolDefaultMaxEtfCount == 10

major_assets == <<Stock, Bond, Commodity, RealEstate>>

\* StrategyGenerationTool._build_etf_pool: the same fetch and filters, then
\* deduplication and truncation; nothing ranks the candidates
build_etf_pool(cat, el, cons) ==
    LET fetched ==
            IF el.preferred_asset_classes # <<>>
            THEN FetchAll(cat, el.preferred_asset_classes, ToolPreferredLimit)
            ELSE FetchAll(cat, major_assets, ToolDefaultLimit)
        allowed == FilterForbidden(fetched, el.forbidden_assets)
        unique_etfs == Deduplicate(apply_constraints(allowed, cons), {})
        max_etfs == IF cons.max_etf_count = <<>> THEN ToolDefaultMaxEtfCount
                    ELSE cons.max_etf_count[1]
    IN  Slice(unique_etfs, max_etfs)

\* a row as ETFService.get_etf_list builds it from ETFBasicInfo: no sector,
\* market_cap, expense_ratio or sharpe_ratio key
BareRow(code, asset_class) == [code |-> code, asset_class |-> asset_class]

UniverseRows(code) ==
    {Row(code, Kinds[k]) : k \in DOMAIN Kinds} \cup {BareRow(code, Bond)}

RECURSIVE UniverseCatalogsOf(_)
\* the catalogs of n rows, etf_code unique
UniverseCatalogsOf(n) ==
    IF n = 0 THEN {<<>>}
    ELSE {Append(cat, r) : cat \in UniverseCatalogsOf(n - 1), r \in UniverseRows(n)}

UniverseCatalogs == UNION {UniverseCatalogsOf(n) : n \in 0..MaxUniverse}

UniverseElements ==
    [risk_tolerance : {Balanced},
     target_return : {<<>>},
     preferred_asset_classes : {<<>>, <<Stock, Bond>>, <<Bond, Stock>>},
     forbidden_assets : {<<>>, <<Bond>>, <<Gold>>}]

UniverseConstraints ==
    [max_etf_count : {<<>>, <<2>>},
     min_market_cap : {<<>>, <<50>>},
     max_expense_ratio : {<<>>, <<50>>}]

InitUniverse ==
    /\ pc = "idle"
    /\ catalog \in UniverseCatalogs
    /\ elements = NoElements
    /\ constraints = NoConstraints
    /\ genResult = NoResult
    /\ etf_universe = NoUniverse
    /\ CallsIdle
    /\ SessionsIdle
    /\ AllocIdle
    /\ OptIdle
    /\ MetricsIdle
    /\ BacktestIdle

BuildEtfUniverse(el, cons) ==
    /\ pc = "idle"
    /\ elements' = el
    /\ constraints' = cons
    /\ etf_universe' = [impl |-> "engine",
                        etfs |-> build_etf_universe(catalog, el, cons)]
    /\ pc' = "built"
    /\ UNCHANGED <<catalog, genResult, allocVars, optVars, metricVars, backtestVars,
                   calls, sessionVars>>

BuildEtfPool(el, cons) ==
    /\ pc = "idle"
    /\ elements' = el
    /\ constraints' = cons
    /\ etf_universe' = [impl |-> "tool",
                        etfs |-> build_etf_pool(catalog, el, cons)]
    /\ pc' = "built"
    /\ UNCHANGED <<catalog, genResult, allocVars, optVars, metricVars, backtestVars,
                   calls, sessionVars>>

NextUniverse ==
    \/ \E el \in UniverseElements, cons \in UniverseConstraints :
           BuildEtfUniverse(el, cons)
    \/ \E el \in UniverseElements, cons \in UniverseConstraints :
           BuildEtfPool(el, cons)

SpecUniverse == InitUniverse /\ [][NextUniverse]_vars

----------------------------------------------------------------------------
(* Claims about the Universe Builder, checked under SpecUniverse *)

\* some term of the forbidden list occurs in the candidate's combined text
Forbidden(etf) ==
    \E k \in DOMAIN elements.forbidden_assets :
        Contains(elements.forbidden_assets[k], CombinedText(etf))

\* C21: no candidate returned by StrategyEngine._build_etf_universe has a
\* combined asset_class + sector text that contains a term of
\* forbidden_assets, whatever the catalog and the forbidden list.
C21_NoForbiddenCandidate ==
    (pc = "built" /\ etf_universe.impl = "engine") =>
        \A i \in DOMAIN etf_universe.etfs : ~Forbidden(etf_universe.etfs[i])

\* the engine built a non-empty universe from a catalog that lists a
\* candidate forbidden by its sector alone
C21_Witness ==
    /\ pc = "built"
    /\ etf_universe.impl = "engine"
    /\ etf_universe.etfs # <<>>
    /\ elements.forbidden_assets = <<Gold>>
    /\ \E i \in DOMAIN catalog :
           /\ Forbidden(catalog[i])
           /\ ~Contains(Gold, Get(catalog[i], "asset_class", NoText))

\* C22: when min_market_cap and/or max_expense_ratio are set, every
\* candidate either builder returns has a market_cap at or above the minimum
\* and an expense_ratio at or below the maximum; a candidate whose value for
\* a constrained attribute is missing is never returned.
C22_HardFilters ==
    pc = "built" =>
        \A i \in DOMAIN etf_universe.etfs :
            LET etf == etf_universe.etfs[i]
            IN  /\ constraints.min_market_cap # <<>> =>
                       /\ "market_cap" \in DOMAIN etf
                       /\ etf.market_cap >= constraints.min_market_cap[1]
                /\ constraints.max_expense_ratio # <<>> =>
                       /\ "expense_ratio" \in DOMAIN etf
                       /\ etf.expense_ratio <= constraints.max_expense_ratio[1]

\* the deduplicated candidates that pass the filters, before any ranking or
\* truncation, fetched with the limits of the builder that ran
Passing ==
    LET limit == IF etf_universe.impl = "engine"
                 THEN (IF elements.preferred_asset_classes # <<>>
                       THEN PreferredLimit ELSE DefaultLimit)
                 ELSE (IF elements.preferred_asset_classes # <<>>
                       THEN ToolPreferredLimit ELSE ToolDefaultLimit)
        classes == IF elements.preferred_asset_classes # <<>>
                   THEN elements.preferred_asset_classes
                   ELSE (IF etf_universe.impl = "engine"
                         THEN default_assets ELSE major_assets)
    IN  Deduplicate(apply_constraints(
            FilterForbidden(FetchAll(catalog, classes, limit),
                            elements.forbidden_assets), constraints), {})

\* position of the candidate with this code in a list, 0 when absent
IndexOf(list, code) ==
    IF \E j \in DOMAIN list : list[j].code = code
    THEN CHOOSE j \in DOMAIN list : list[j].code = code
    ELSE 0

\* C23: both builders rank before they truncate: the returned list is in
\* non-increasing order of the composite score, no excluded candidate that
\* passed the filters has a strictly higher score than an included one, and
\* candidates of equal score keep their first-occurrence order.
C23_RankedBeforeTruncated ==
    pc = "built" =>
        LET etfs == etf_universe.etfs
        IN  /\ \A i, j \in DOMAIN etfs :
                   i < j => rank_score(etfs[i]) >= rank_score(etfs[j])
            /\ \A i \in DOMAIN etfs, k \in DOMAIN Passing :
                   IndexOf(etfs, Passing[k].code) = 0
                       => rank_score(Passing[k]) <= rank_score(etfs[i])
            /\ \A i, j \in DOMAIN etfs :
                   (i < j /\ rank_score(etfs[i]) = rank_score(etfs[j]))
                       => IndexOf(Passing, etfs[i].code) < IndexOf(Passing, etfs[j].code)

----------------------------------------------------------------------------
(* How the three entry points end: StrategyEngine.generate_strategy,       *)
(* StrategyEngine.optimize_strategy and BacktestEngine.run_backtest.  A    *)
(* fault names the step of the body in which an Exception is raised (a     *)
(* failing collaborator, a missing key, a None argument); "none" is a run  *)
(* without one.                                                            *)

MaxCalls == 2

\* the entry point returned a dict with these keys
Returned(success, keys) == [raised |-> FALSE, success |-> success, keys |-> keys]

\* the exception left the entry point
Propagated(exc) == [raised |-> TRUE, success |-> FALSE, keys |-> {}]

\* a handler that logs and raises again
except_reraise(entry, exc) == Propagated(exc)

\* the `except Exception as e` clause of each entry point
except_exception(entry, exc) ==
    CASE entry = "generate_strategy" ->
            Returned(FALSE, {"success", "error", "strategy"})
      [] entry = "optimize_strategy" ->
            Returned(FALSE, {"success", "error", "optimized_strategy"})
      [] entry = "run_backtest" ->
            Returned(FALSE, {"success", "error", "backtest_results",
                             "performance_metrics"})

\* the steps of generate_strategy's try block; _build_etf_universe,
\* _optimize_portfolio and _estimate_strategy_performance have a handler of
\* their own and return a fallback value
GenerateSteps ==
    {"_build_etf_universe", "_optimize_portfolio", "_build_strategy_config",
     "_generate_strategy_description", "_estimate_strategy_performance",
     "_generate_strategy_name", "_generate_investment_philosophy",
     "generation_metadata"}

\* StrategyEngine.generate_strategy
generate_strategy_outcome(fault, universe_empty) ==
    IF universe_empty \/ fault = "_build_etf_universe"
    THEN \* _build_etf_universe returned [] (its handler's value included)
         Returned(FALSE, {"success", "error", "strategy"})
    ELSE IF fault \in {"none", "_optimize_portfolio", "_estimate_strategy_performance"}
    THEN Returned(TRUE, {"success", "strategy"})
    ELSE except_exception("generate_strategy", fault)

\* the steps of optimize_strategy's try block; only
\* _estimate_strategy_performance has a handler of its own
OptimizeSteps ==
    {"_analyze_feedback", "_apply_optimization", "investment_elements",
     "_estimate_strategy_performance", "_summarize_changes"}

\* StrategyEngine.optimize_strategy
optimize_strategy_outcome(fault) ==
    IF fault \in {"none", "_estimate_strategy_performance"}
    THEN Returned(TRUE, {"success", "optimized_strategy", "changes_summary",
                         "optimization_reason"})
    ELSE except_exception("optimize_strategy", fault)

\* the steps of run_backtest's try block; every helper has a handler of its
\* own: _get_etf_historical_data returns {}, _calculate_portfolio_returns an
\* empty series, _get_benchmark_returns None, _calculate_performance_metrics
\* {} and _generate_daily_data []
BacktestSteps ==
    {"timedelta", "_get_etf_historical_data", "_calculate_portfolio_returns",
     "_get_benchmark_returns", "_calculate_performance_metrics",
     "_generate_daily_data", "benchmark_comparison"}

\* BacktestEngine.run_backtest; without a benchmark series.  Empty metrics
\* make performance_metrics["total_return"] raise KeyError in the try block.
run_backtest_outcome(fault, data_empty) ==
    IF fault = "timedelta"
    THEN except_exception("run_backtest", fault)
    ELSE IF data_empty \/ fault = "_get_etf_historical_data"
    THEN Returned(FALSE, {"success", "error", "backtest_results"})
    ELSE IF fault \in {"_calculate_portfolio_returns",
                       "_calculate_performance_metrics"}
    THEN except_exception("run_backtest", "KeyError")
    ELSE IF fault = "benchmark_comparison"
    THEN except_exception("run_backtest", fault)
    ELSE Returned(TRUE, {"success", "backtest_results", "performance_metrics",
                         "benchmark_comparison"})

InitCalls ==
    /\ pc = "idle"
    /\ calls = <<>>
    /\ GenIdle
    /\ AllocIdle
    /\ OptIdle
    /\ MetricsIdle
    /\ BacktestIdle
    /\ UniverseIdle
    /\ SessionsIdle

CallDone(entry, fault, outcome) ==
    /\ Len(calls) < MaxCalls
    /\ calls' = Append(calls, [entry |-> entry, fault |-> fault, outcome |-> outcome])
    /\ pc' = "called"
    /\ UNCHANGED <<genVars, allocVars, optVars, metricVars, backtestVars,
                   etf_universe, sessionVars>>

CallGenerateStrategy(fault, universe_empty) ==
    CallDone("generate_strategy", fault,
             generate_strategy_outcome(fault, universe_empty))

CallOptimizeStrategy(fault) ==
    CallDone("optimize_strategy", fault, optimize_strategy_outcome(fault))

CallRunBacktest(fault, data_empty) ==
    CallDone("run_backtest", fault, run_backtest_outcome(fault, data_empty))

NextCalls ==
    \/ \E fault \in GenerateSteps \cup {"none"}, universe_empty \in BOOLEAN :
           CallGenerateStrategy(fault, universe_empty)
    \/ \E fault \in OptimizeSteps \cup {"none"} : CallOptimizeStrategy(fault)
    \/ \E fault \in BacktestSteps \cup {"none"}, data_empty \in BOOLEAN :
           CallRunBacktest(fault, data_empty)

SpecCalls == InitCalls /\ [][NextCalls]_vars

\* C24: generate_strategy, optimize_strategy and run_backtest never raise to
\* their caller: whatever fails inside, each returns a result that carries a
\* success flag, and a result with success = false carries an error value.
C24_NeverRaises ==
    \A i \in DOMAIN calls :
        /\ ~calls[i].outcome.raised
        /\ "success" \in calls[i].outcome.keys
        /\ ~calls[i].outcome.success => "error" \in calls[i].outcome.keys

\* each entry point has met an exception that none of its helpers handles
C24_Witness ==
    /\ Len(calls) = MaxCalls
    /\ \E i, j \in DOMAIN calls :
           /\ calls[i].entry = "generate_strategy"
           /\ calls[i].fault = "_build_strategy_config"
           /\ ~calls[i].outcome.success
           /\ calls[j].entry = "run_backtest"
           /\ calls[j].fault = "_calculate_performance_metrics"
           /\ ~calls[j].outcome.success

----------------------------------------------------------------------------
(* Business flow: BusinessFlowManager.  A message is a sequence of         *)
(* characters, each written as its syllable; characters that are read the  *)
(* same carry a mark that tells them apart.                                *)

MaxPhrases == 2

NewUser == <<"xin", "yong", "hu">>
FirstUse == <<"shou3", "ci", "shi3", "yong">>
Introduce == <<"jie4", "shao">>
OldUser == <<"lao", "yong", "hu">>
HistoryStrategy == <<"li", "shi3h", "ce", "lve">>
WelcomeBack == <<"huan", "ying", "hui", "lai">>
InvestPreference == <<"tou", "zi", "pian", "hao">>
Funds == <<"zi", "jin1">>
Horizon == <<"qi", "xian4">>
GenerateStrategyText == <<"sheng", "cheng", "ce", "lve">>
MakePlan == <<"zhi4", "ding", "fang", "an">>
InvestAdvice == <<"tou", "zi", "jian4a", "yi4c">>
ViewStrategy == <<"cha", "kan", "ce", "lve">>
ShowPlan == <<"zhan", "shi4", "fang", "an">>
StrategyDetails == <<"ce", "lve", "xiang", "qing">>
Optimize == <<"you", "hua">>
NotSatisfied == <<"bu", "man", "yi4">>
Improve == <<"gai", "jin4">>
Earlier == <<"zhi1", "qian", "de">>
LookBack == <<"hui", "gu4">>
View == <<"cha", "kan">>
Recommend == <<"tui", "jian4b">>
HotSpot == <<"re", "dian">>
Opportunity == <<"ji", "hui4">>
Information == <<"zi", "xun">>
News == <<"xin", "wen">>
Save == <<"bao", "cun">>
Confirm == <<"que", "ren">>
Adopt == <<"cai", "yong">>
UseThisStrategy == <<"shi3", "yong", "zhe", "ge", "ce", "lve">>
Thanks == <<"xie", "xie">>
Goodbye == <<"zai", "jian4c">>
Finish == <<"jie2", "shu">>
Satisfied == <<"man", "yi4">>
Hello == <<"ni", "hao">>

\* the keys of flow_stages, in the order the dict literal lists them
StageOrder ==
    <<"new_user_introduction", "old_user_welcome", "element_collection",
      "strategy_generation", "strategy_presentation", "strategy_optimization",
      "strategy_review", "market_recommendation", "strategy_save",
      "conversation_end">>

Stages == {StageOrder[i] : i \in DOMAIN StageOrder}

\* BusinessFlowManager.flow_stages
flow_stages ==
    [stage \in Stages |->
        CASE stage = "new_user_introduction" ->
                 [triggers |-> <<NewUser, FirstUse, Introduce>>,
                  next_stages |-> {"element_collection", "market_recommendation"}]
          [] stage = "old_user_welcome" ->
                 [triggers |-> <<OldUser, HistoryStrategy, WelcomeBack>>,
                  next_stages |-> {"strategy_review", "market_recommendation",
                                   "strategy_optimization"}]
          [] stage = "element_collection" ->
                 [triggers |-> <<InvestPreference, Risk, Return, Funds, Horizon>>,
                  next_stages |-> {"strategy_generation", "element_collection"}]
          [] stage = "strategy_generation" ->
                 [triggers |-> <<GenerateStrategyText, MakePlan, InvestAdvice>>,
                  next_stages |-> {"strategy_presentation", "strategy_optimization"}]
          [] stage = "strategy_presentation" ->
                 [triggers |-> <<ViewStrategy, ShowPlan, StrategyDetails>>,
                  next_stages |-> {"strategy_optimization", "strategy_save",
                                   "element_collection"}]
          [] stage = "strategy_optimization" ->
                 [triggers |-> <<Modify, Adjust, Optimize, NotSatisfied, Improve>>,
                  next_stages |-> {"strategy_presentation", "strategy_save",
                                   "element_collection"}]
          [] stage = "strategy_review" ->
                 [triggers |-> <<HistoryStrategy, Earlier, LookBack, View>>,
                  next_stages |-> {"strategy_optimization", "market_recommendation",
                                   "strategy_generation"}]
          [] stage = "market_recommendation" ->
                 [triggers |-> <<Recommend, HotSpot, Opportunity, Information, News>>,
                  next_stages |-> {"element_collection", "strategy_generation",
                                   "strategy_optimization"}]
          [] stage = "strategy_save" ->
                 [triggers |-> <<Save, Confirm, Adopt, UseThisStrategy>>,
                  next_stages |-> {"conversation_end", "market_recommendation"}]
          [] stage = "conversation_end" ->
                 [triggers |-> <<Thanks, Goodbye, Finish, Satisfied>>,
                  next_stages |-> {}]]

\* BusinessFlowManager.get_next_stages: flow_stages.get(stage, {}).get("next_stages", [])
get_next_stages(stage) ==
    IF stage \in DOMAIN flow_stages THEN flow_stages[stage].next_stages ELSE {}

\* BusinessFlowManager._is_valid_transition, from_stage given
is_valid_transition(from_stage, to_stage) ==
    to_stage \in get_next_stages(from_stage) \/ to_stage = from_stage

\* the elements _should_generate_strategy looks for
required_elements == {"risk_tolerance", "target_return", "preferred_asset_classes"}

\* BusinessFlowManager._should_generate_strategy; extracted is the set of
\* elements of context["extracted_elements"] that hold a value
should_generate_strategy(extracted) ==
    IF Cardinality(extracted \cap required_elements) >= 2
    THEN "strategy_generation"
    ELSE "element_collection"

\* BusinessFlowManager._get_default_next_stage, current_stage given
get_default_next_stage(current_stage, extracted) ==
    CASE current_stage = "new_user_introduction" -> "element_collection"
      [] current_stage = "old_user_welcome" -> "strategy_review"
      [] current_stage = "element_collection" -> should_generate_strategy(extracted)
      [] current_stage = "strategy_generation" -> "strategy_presentation"
      [] current_stage = "strategy_presentation" -> "strategy_optimization"
      [] current_stage = "strategy_optimization" -> "strategy_presentation"
      [] current_stage = "strategy_review" -> "strategy_optimization"
      [] current_stage = "market_recommendation" -> "element_collection"
      [] current_stage = "strategy_save" -> "conversation_end"
      [] OTHER -> "element_collection"

\* the score of a stage: how many of its triggers the message contains
StageScore(stage, message) ==
    LET triggers == flow_stages[stage].triggers
        message_lower == LowerText(message)
    IN  Cardinality({t \in DOMAIN triggers :
                        Contains(LowerText(triggers[t]), message_lower)})

\* stage_scores: the score of every stage, by its place in the dict
StageScores(message) ==
    [i \in DOMAIN StageOrder |-> StageScore(StageOrder[i], message)]

\* max(stage_scores, key=stage_scores.get) over the stages that scored: the
\* first key, in insertion order, whose score no other key exceeds; <<>>
\* when no stage scored
BestStage(stage_scores) ==
    LET Scored == {i \in DOMAIN stage_scores : stage_scores[i] > 0}
        Best == {i \in Scored :
                    \A j \in Scored :
                        /\ stage_scores[j] <= stage_scores[i]
                        /\ stage_scores[j] = stage_scores[i] => i <= j}
    IN  IF Scored = {} THEN <<>>
        ELSE <<StageOrder[CHOOSE i \in Best : TRUE]>>

\* determine_stage with a last_stage: the best stage when there is one and
\* the transition to it is valid, the default otherwise
NextStageFrom(last_stage, best_stage, extracted) ==
    IF best_stage # <<>> /\ is_valid_transition(last_stage, best_stage[1])
    THEN best_stage[1]
    ELSE get_default_next_stage(last_stage, extracted)

\* BusinessFlowManager.determine_stage: last_stage is context.get("last_stage")
\* as a sequence of length 0 or 1, extracted the elements collected so far
determine_stage(is_new_user, last_stage, extracted, message) ==
    IF last_stage = <<>>
    THEN IF is_new_user THEN "new_user_introduction" ELSE "old_user_welcome"
    ELSE NextStageFrom(last_stage[1], BestStage(StageScores(message)), extracted)

\* what a message is made of
Phrases ==
    {Hello, NotSatisfied, Thanks, ViewStrategy, HistoryStrategy, Save, Risk,
     GenerateStrategyText, Recommend, Introduce}

RECURSIVE MessagesOf(_)
MessagesOf(n) ==
    IF n = 0 THEN {<<>>}
    ELSE MessagesOf(n - 1)
         \cup {m \o p : m \in MessagesOf(n - 1), p \in Phrases}

FlowMessages == MessagesOf(MaxPhrases)

\* context["extracted_elements"] with none and with two of the elements
ExtractedSets == {{}, {"risk_tolerance", "target_return"}}

InitFlow ==
    /\ pc = "idle"
    /\ flow \in [last_stage : {<<>>} \cup {<<s>> : s \in Stages},
                 message : FlowMessages,
                 collected : ExtractedSets,
                 is_new_user : BOOLEAN,
                 stage : {<<>>}]
    /\ GenIdle
    /\ AllocIdle
    /\ OptIdle
    /\ MetricsIdle
    /\ BacktestIdle
    /\ UniverseIdle
    /\ CallsIdle
    /\ ConversationIdle
    /\ SocketsIdle
    /\ StoreIdle

DetermineStage ==
    /\ pc = "idle"
    /\ flow' = [flow EXCEPT !.stage =
                   <<determine_stage(flow.is_new_user, flow.last_stage,
                                     flow.collected, flow.message)>>]
    /\ pc' = "staged"
    /\ UNCHANGED <<genVars, allocVars, optVars, metricVars, backtestVars,
                   etf_universe, calls, convVars, socketVars, storeVars>>

NextFlow == DetermineStage

SpecFlow == InitFlow /\ [][NextFlow]_vars

\* C27: for a context whose last_stage is one of the ten stages,
\* determine_stage returns last_stage or one of its next_stages, whatever
\* the message; with last_stage conversation_end it returns conversation_end.
C27_ValidTransition ==
    (pc = "staged" /\ flow.last_stage # <<>>) =>
        /\ \/ flow.stage = flow.last_stage
           \/ flow.stage[1] \in flow_stages[flow.last_stage[1]].next_stages
        /\ flow.last_stage = <<"conversation_end">> =>
               flow.stage = <<"conversation_end">>

----------------------------------------------------------------------------
(* Conversation: ConversationService.process_message on one session, with *)
(* AgentCore.process_conversation inside it.  The cache holds JSON: every   *)
(* read of the session's context is a copy of what was written last.       *)

MaxMessages == 3

\* what the user says in the conversation
ConversationMessages == {Hello, Risk, GenerateStrategyText, Thanks}

\* where a process_message call fails: nowhere, inside the agent before it
\* writes the context (the agent answers success False), or in the commit
\* of the assistant's reply (after the agent has answered)
MessageFaults == {"none", "agent", "commit"}

\* ConversationService.create_session: the session_context it caches
create_session(is_new_user) ==
    [is_new_user |-> is_new_user,
     message_count |-> 0,
     current_stage |-> IF is_new_user THEN "new_user_introduction"
                       ELSE "old_user_welcome",
     last_stage |-> <<>>]

\* CacheService.update_conversation_context with the agent's update:
\* the cached dict, or {}, with last_stage replaced, written back
update_conversation_context(cached, current_stage) ==
    [cached EXCEPT !.last_stage = <<current_stage>>]

\* AgentCore.process_conversation from step 4 on, with the stage it has
\* determined: on failure nothing is written, on success last_stage is;
\* the stage, whether it succeeded and the entry it leaves in the cache
AgentAnswer(cached, last_stage, current_stage, fault) ==
    [success |-> fault # "agent",
     last_stage |-> last_stage,
     stage |-> current_stage,
     cached |-> IF fault = "agent" THEN cached
                ELSE update_conversation_context(cached, current_stage)]

\* AgentCore.process_conversation: context is the dict the caller read,
\* cached the entry in the cache.  conversation_context is the cached dict
\* updated with context, which holds every key of it: last_stage is
\* context's; is_new_user is what the identification tool answers.
process_conversation(cached, context, message, fault) ==
    AgentAnswer(cached, context.last_stage,
                determine_stage(cached.is_new_user, context.last_stage, {}, message),
                fault)

\* ConversationService.process_message after the agent has answered: on
\* success the context read at the start is written back with the new
\* current_stage, otherwise the cache is left as the agent left it
ServiceAnswer(context, message, fault, result) ==
    [cached |-> IF result.success /\ fault # "commit"
                THEN [context EXCEPT !.current_stage = result.stage]
                ELSE result.cached,
     turn |-> [message |-> message, fault |-> fault,
               last_stage |-> result.last_stage, stage |-> <<result.stage>>,
               success |-> result.success /\ fault # "commit"]]

\* context["message_count"] += 1 on the dict read from the cache
Counted(cached) == [cached EXCEPT !.message_count = @ + 1]

\* ConversationService.process_message with the session in the cache:
\* the entry it leaves in the cache and the record of the call
process_message(cached, message, fault) ==
    ServiceAnswer(Counted(cached), message, fault,
                  process_conversation(cached, Counted(cached), message, fault))

InitConversation ==
    /\ pc = "idle"
    /\ session_context = <<>>
    /\ turns = <<>>
    /\ GenIdle
    /\ AllocIdle
    /\ OptIdle
    /\ MetricsIdle
    /\ BacktestIdle
    /\ UniverseIdle
    /\ CallsIdle
    /\ FlowIdle
    /\ SocketsIdle
    /\ StoreIdle

CreateSession(is_new_user) ==
    /\ session_context = <<>>
    /\ session_context' = <<create_session(is_new_user)>>
    /\ pc' = "session"
    /\ UNCHANGED <<genVars, allocVars, optVars, metricVars, backtestVars,
                   etf_universe, calls, turns, flow, socketVars, storeVars>>

\* process_message when get_conversation_context finds nothing: ValueError,
\* caught, success False
ProcessMessageNoSession(message) ==
    /\ session_context = <<>>
    /\ Len(turns) < MaxMessages
    /\ turns' = Append(turns, [message |-> message, fault |-> "none",
                               last_stage |-> <<>>, stage |-> <<>>,
                               success |-> FALSE])
    /\ pc' = "answered"
    /\ UNCHANGED <<genVars, allocVars, optVars, metricVars, backtestVars,
                   etf_universe, calls, session_context, flow, socketVars,
                   storeVars>>

\* process_message returns: what it left in the cache, and its record
Answered(done) ==
    /\ session_context' = <<done.cached>>
    /\ turns' = Append(turns, done.turn)

ProcessMessage(message, fault) ==
    /\ session_context # <<>>
    /\ Len(turns) < MaxMessages
    /\ Answered(process_message(session_context[1], message, fault))
    /\ pc' = "answered"
    /\ UNCHANGED <<genVars, allocVars, optVars, metricVars, backtestVars,
                   etf_universe, calls, flow, socketVars, storeVars>>

NextConversation ==
    \/ \E is_new_user \in BOOLEAN : CreateSession(is_new_user)
    \/ \E message \in ConversationMessages : ProcessMessageNoSession(message)
    \/ \E message \in ConversationMessages, fault \in MessageFaults :
           ProcessMessage(message, fault)

SpecConversation == InitConversation /\ [][NextConversation]_vars

\* C26: when process_message has answered a message successfully, the
\* next message of the session is staged from the stage of that answer:
\* determine_stage sees it as last_stage and does not take the branch of a
\* first message.
C26_StageAdvances ==
    \A k \in 1..(Len(turns) - 1) :
        turns[k].success =>
            /\ turns[k + 1].last_stage = turns[k].stage
            /\ turns[k + 1].last_stage # <<>>

----------------------------------------------------------------------------
(* WebSocket connections: WebSocketManager.connect and disconnect on one   *)
(* session_id.  A coroutine runs without interruption from one await of    *)
(* socket I/O to the next; between them any other coroutine may run.  A    *)
(* websocket is named by the number of the connect call that brought it.   *)

MaxCoroutines == 3

Users == {1, 2}

\* the users of a dict of user_sessions, in insertion order, as a set
SessionUsers == {user_sessions[i] : i \in DOMAIN user_sessions}

\* connect, from `self.active_connections[session_id] = websocket` up to the
\* await of send_text inside send_to_session
Register(task) ==
    /\ active_connections' = <<task.websocket>>
    /\ user_sessions' = IF \E i \in DOMAIN user_sessions : user_sessions[i] = task.user
                        THEN user_sessions
                        ELSE Append(user_sessions, task.user)
    /\ registration' = <<[websocket |-> task.websocket, user |-> task.user,
                          disconnected |-> FALSE]>>

\* a disconnect(session_id) has been started
NoteDisconnect ==
    registration' = IF registration = <<>> THEN registration
                    ELSE <<[registration[1] EXCEPT !.disconnected = TRUE]>>

InitSockets ==
    /\ pc = "idle"
    /\ active_connections = <<>>
    /\ user_sessions = <<>>
    /\ ws_tasks = <<>>
    /\ registration = <<>>
    /\ GenIdle
    /\ AllocIdle
    /\ OptIdle
    /\ MetricsIdle
    /\ BacktestIdle
    /\ UniverseIdle
    /\ CallsIdle
    /\ ConversationIdle
    /\ FlowIdle
    /\ StoreIdle

\* connect(websocket, session_id, user) is called: it runs up to
\* `await websocket.accept()`
StartConnect(user) ==
    /\ Len(ws_tasks) < MaxCoroutines
    /\ ws_tasks' = Append(ws_tasks, [op |-> "connect",
                                     websocket |-> Len(ws_tasks) + 1,
                                     user |-> user, pc |-> "accept",
                                     target |-> <<>>, removed |-> <<>>])
    /\ UNCHANGED <<pc, genVars, allocVars, optVars, metricVars, backtestVars,
                   etf_universe, calls, convVars, flow, storeVars,
                   active_connections, user_sessions, registration>>

\* disconnect(session_id) is called: it runs up to `await websocket.close()`,
\* or to its end when the session has no connection
StartDisconnect ==
    /\ Len(ws_tasks) < MaxCoroutines
    /\ ws_tasks' = Append(ws_tasks, [op |-> "disconnect", websocket |-> 0,
                                     user |-> 0,
                                     pc |-> IF active_connections = <<>>
                                            THEN "done" ELSE "close",
                                     target |-> active_connections,
                                     removed |-> <<>>])
    /\ NoteDisconnect
    /\ UNCHANGED <<pc, genVars, allocVars, optVars, metricVars, backtestVars,
                   etf_universe, calls, convVars, flow, storeVars,
                   active_connections, user_sessions>>

\* connect resumes after accept: with a connection under the session it
\* calls disconnect, which runs up to its await of close; without one it
\* registers the websocket and runs up to the await of send_text
Accepted(t) ==
    /\ ws_tasks[t].pc = "accept"
    /\ IF active_connections # <<>>
       THEN /\ ws_tasks' = [ws_tasks EXCEPT ![t].pc = "close",
                                            ![t].target = active_connections]
            /\ NoteDisconnect
            /\ UNCHANGED <<active_connections, user_sessions>>
       ELSE /\ ws_tasks' = [ws_tasks EXCEPT ![t].pc = "send"]
            /\ Register(ws_tasks[t])
    /\ UNCHANGED <<pc, genVars, allocVars, optVars, metricVars, backtestVars,
                   etf_universe, calls, convVars, flow, storeVars>>

\* disconnect resumes after close: `del self.active_connections[session_id]`
\* (a KeyError when the key has gone ends disconnect in its handler), then
\* the first user whose set holds the session loses it
AfterDelete ==
    [active_connections |-> <<>>,
     user_sessions |-> IF active_connections = <<>> \/ user_sessions = <<>>
                       THEN user_sessions ELSE Tail(user_sessions)]

\* a disconnect called on its own resumes after close and ends
Closed(t) ==
    /\ ws_tasks[t].op = "disconnect"
    /\ ws_tasks[t].pc = "close"
    /\ active_connections' = AfterDelete.active_connections
    /\ user_sessions' = AfterDelete.user_sessions
    /\ ws_tasks' = [ws_tasks EXCEPT ![t].pc = "done",
                                    ![t].removed = active_connections]
    /\ UNCHANGED <<pc, genVars, allocVars, optVars, metricVars, backtestVars,
                   etf_universe, calls, convVars, flow, storeVars, registration>>

\* the disconnect inside connect resumes after close and returns; connect
\* registers its websocket and runs up to the await of send_text
ClosedInConnect(t) ==
    /\ ws_tasks[t].op = "connect"
    /\ ws_tasks[t].pc = "close"
    /\ LET after == AfterDelete
           task == ws_tasks[t]
       IN  /\ active_connections' = <<task.websocket>>
           /\ user_sessions' =
                  IF \E i \in DOMAIN after.user_sessions :
                         after.user_sessions[i] = task.user
                  THEN after.user_sessions
                  ELSE Append(after.user_sessions, task.user)
           /\ registration' = <<[websocket |-> task.websocket, user |-> task.user,
                                 disconnected |-> FALSE]>>
    /\ ws_tasks' = [ws_tasks EXCEPT ![t].pc = "send",
                                    ![t].removed = active_connections]
    /\ UNCHANGED <<pc, genVars, allocVars, optVars, metricVars, backtestVars,
                   etf_universe, calls, convVars, flow, storeVars>>

\* connect resumes after send_text and returns
Sent(t) ==
    /\ ws_tasks[t].pc = "send"
    /\ ws_tasks' = [ws_tasks EXCEPT ![t].pc = "done"]
    /\ UNCHANGED <<pc, genVars, allocVars, optVars, metricVars, backtestVars,
                   etf_universe, calls, convVars, flow, storeVars,
                   active_connections, user_sessions, registration>>

NextSockets ==
    \/ \E user \in Users : StartConnect(user)
    \/ StartDisconnect
    \/ \E t \in DOMAIN ws_tasks : Accepted(t)
    \/ \E t \in DOMAIN ws_tasks : Closed(t)
    \/ \E t \in DOMAIN ws_tasks : ClosedInConnect(t)
    \/ \E t \in DOMAIN ws_tasks : Sent(t)

SpecSockets == InitSockets /\ [][NextSockets]_vars

\* C28: when connect has registered a websocket under the session and no
\* disconnect of the session has been started since, the session's
\* connection is that websocket and the session is among its user's
\* sessions, however the coroutines interleave.
C28_NewerConnectionKept ==
    (registration # <<>> /\ ~registration[1].disconnected) =>
        /\ active_connections = <<registration[1].websocket>>
        /\ registration[1].user \in SessionUsers

----------------------------------------------------------------------------
(* Strategy store: StrategyService.get_strategy, update_strategy and       *)
(* delete_strategy on one strategy_id, each call on a database session of  *)
(* its own.  Database work is synchronous; a coroutine is suspended only   *)
(* in its awaits of the cache.  The strategy belongs to user 1; its name   *)
(* is the number of updates it has had.                                    *)

MaxRequests == 3

Owner == CHOOSE user \in Users : \A other \in Users : user <= other

\* StrategyService._format_strategy_response
format_strategy_response(row) == [name |-> row.name, status |-> row.status]

\* the row get_strategy queries for: id, user_id and status "active"
ActiveRowOf(user) ==
    IF /\ db_strategy # <<>>
       /\ db_strategy[1].user_id = user
       /\ db_strategy[1].status = "active"
    THEN db_strategy ELSE <<>>

\* the row update_strategy and delete_strategy query for: id and user_id
RowOf(user) ==
    IF db_strategy # <<>> /\ db_strategy[1].user_id = user
    THEN db_strategy ELSE <<>>

\* delete_strategy has returned True for some call
DeleteReturned ==
    \E t \in DOMAIN requests :
        /\ requests[t].op = "delete"
        /\ requests[t].pc = "done"
        /\ requests[t].result = <<TRUE>>

\* the names written by the update_strategy calls that have returned success
UpdatesReturned ==
    {requests[t].data[1].name : t \in {u \in DOMAIN requests :
                                          /\ requests[u].op = "update"
                                          /\ requests[u].pc = "done"
                                          /\ requests[u].result = <<TRUE>>}}

InitStore ==
    /\ pc = "idle"
    /\ db_strategy = <<[user_id |-> Owner, status |-> "active", name |-> 0]>>
    /\ strategy_cache = <<>>
    /\ requests = <<>>
    /\ GenIdle
    /\ AllocIdle
    /\ OptIdle
    /\ MetricsIdle
    /\ BacktestIdle
    /\ UniverseIdle
    /\ CallsIdle
    /\ ConversationIdle
    /\ FlowIdle
    /\ SocketsIdle

\* get_strategy(strategy_id, user) is called: it runs up to the await of
\* get_strategy_data
StartGet(user) ==
    /\ Len(requests) < MaxRequests
    /\ requests' = Append(requests,
                          [op |-> "get", user |-> user, pc |-> "cache_get",
                           data |-> <<>>, result |-> <<>>,
                           after_delete |-> DeleteReturned,
                           after_updates |-> UpdatesReturned])
    /\ UNCHANGED <<pc, genVars, allocVars, optVars, metricVars, backtestVars,
                   etf_universe, calls, convVars, flow, socketVars,
                   db_strategy, strategy_cache>>

\* the cache answers the read of strategy:data:{strategy_id}
CacheAnswered(t) ==
    /\ requests[t].pc = "cache_get"
    /\ requests' = [requests EXCEPT ![t].pc = "cache_got",
                                    ![t].data = strategy_cache]
    /\ UNCHANGED <<pc, genVars, allocVars, optVars, metricVars, backtestVars,
                   etf_universe, calls, convVars, flow, socketVars,
                   db_strategy, strategy_cache>>

\* get_strategy resumes with the cached value: a hit is returned as it is;
\* on a miss the row is queried, None is returned when there is none, and
\* otherwise the formatted row is on its way to the cache
AfterCacheGet(t) ==
    /\ requests[t].pc = "cache_got"
    /\ LET cached_strategy == requests[t].data
           row == ActiveRowOf(requests[t].user)
       IN  requests' =
               IF cached_strategy # <<>>
               THEN [requests EXCEPT ![t].pc = "done",
                                     ![t].result = cached_strategy]
               ELSE IF row = <<>>
               THEN [requests EXCEPT ![t].pc = "done", ![t].result = <<>>]
               ELSE [requests EXCEPT
                        ![t].pc = "cache_set",
                        ![t].data = <<format_strategy_response(row[1])>>]
    /\ UNCHANGED <<pc, genVars, allocVars, optVars, metricVars, backtestVars,
                   etf_universe, calls, convVars, flow, socketVars,
                   db_strategy, strategy_cache>>

\* set_strategy_data takes effect and get_strategy returns the formatted row
CacheSet(t) ==
    /\ requests[t].pc = "cache_set"
    /\ strategy_cache' = requests[t].data
    /\ requests' = [requests EXCEPT ![t].pc = "done",
                                    ![t].result = requests[t].data]
    /\ UNCHANGED <<pc, genVars, allocVars, optVars, metricVars, backtestVars,
                   etf_universe, calls, convVars, flow, socketVars, db_strategy>>

\* delete_strategy(strategy_id, user) is called: without a row of the user
\* it returns False, otherwise it marks the row deleted, commits and runs up
\* to the await of delete_cache
StartDelete(user) ==
    /\ Len(requests) < MaxRequests
    /\ LET row == RowOf(user)
           request == [op |-> "delete", user |-> user, pc |-> "cache_delete",
                       data |-> <<>>, result |-> <<>>,
                       after_delete |-> FALSE, after_updates |-> {}]
       IN  IF row = <<>>
           THEN /\ requests' = Append(requests, [request EXCEPT
                                                    !.pc = "done",
                                                    !.result = <<FALSE>>])
                /\ UNCHANGED db_strategy
           ELSE /\ requests' = Append(requests, request)
                /\ db_strategy' = <<[row[1] EXCEPT !.status = "deleted"]>>
    /\ UNCHANGED <<pc, genVars, allocVars, optVars, metricVars, backtestVars,
                   etf_universe, calls, convVars, flow, socketVars,
                   strategy_cache>>

\* update_strategy(strategy_id, user, {"name": ...}) is called: without a
\* row of the user it returns success False, otherwise it writes the row,
\* commits and runs up to the await of delete_cache
StartUpdate(user) ==
    /\ Len(requests) < MaxRequests
    /\ LET row == RowOf(user)
           request == [op |-> "update", user |-> user, pc |-> "cache_delete",
                       data |-> <<>>, result |-> <<>>,
                       after_delete |-> FALSE, after_updates |-> {}]
       IN  IF row = <<>>
           THEN /\ requests' = Append(requests, [request EXCEPT
                                                    !.pc = "done",
                                                    !.result = <<FALSE>>])
                /\ UNCHANGED db_strategy
           ELSE LET updated == [row[1] EXCEPT !.name = @ + 1]
                IN  /\ requests' = Append(requests, [request EXCEPT
                                                        !.data = <<updated>>])
                    /\ db_strategy' = <<updated>>
    /\ UNCHANGED <<pc, genVars, allocVars, optVars, metricVars, backtestVars,
                   etf_universe, calls, convVars, flow, socketVars,
                   strategy_cache>>

\* delete_cache takes effect; update_strategy / delete_strategy clears the
\* user's list as well and returns success
CacheDelete(t) ==
    /\ requests[t].pc = "cache_delete"
    /\ strategy_cache' = <<>>
    /\ requests' = [requests EXCEPT ![t].pc = "done", ![t].result = <<TRUE>>]
    /\ UNCHANGED <<pc, genVars, allocVars, optVars, metricVars, backtestVars,
                   etf_universe, calls, convVars, flow, socketVars, db_strategy>>

NextStore ==
    \/ \E user \in Users : StartGet(user)
    \/ \E t \in DOMAIN requests : CacheAnswered(t)
    \/ \E t \in DOMAIN requests : AfterCacheGet(t)
    \/ \E t \in DOMAIN requests : CacheSet(t)
    \/ \E user \in Users : StartDelete(user)
    \/ \E user \in Users : StartUpdate(user)
    \/ \E t \in DOMAIN requests : CacheDelete(t)

SpecStore == InitStore /\ [][NextStore]_vars

\* the get_strategy calls that have returned
GetsReturned ==
    {t \in DOMAIN requests : requests[t].op = "get" /\ requests[t].pc = "done"}

\* C29: a get_strategy call by a user who does not own the strategy
\* returns None, whatever calls came before it.
C29_OwnerOnly ==
    \A t \in GetsReturned :
        requests[t].user # Owner => requests[t].result = <<>>

\* C30: a get_strategy call of the owner that starts after delete_strategy
\* has returned True returns None, and one that starts after
\* update_strategy has returned never returns the strategy as it was
\* before that update, however the calls interleave.
C30_NoStaleRead ==
    \A t \in GetsReturned :
        requests[t].user = Owner =>
            /\ requests[t].after_delete => requests[t].result = <<>>
            /\ requests[t].result # <<>> =>
                   \A name \in requests[t].after_updates :
                       requests[t].result[1].name >= name

====
